---- MODULE Spec2Model ----
(***************************************************************************)
(* Emergency-alert application: the Alert class hierarchy, the             *)
(* NotificationService.notifyAll fan-out and the FileHandler local log     *)
(* store, as state machines.                                               *)
(*                                                                         *)
(*   Spec      calls of NotificationService.notifyAll, which may overlap   *)
(*   SpecAlert sendAlert calls and status assignments on constructed alerts*)
(*   SpecLog   saveLog / deleteLog / clearAllLogs on a working localStorage*)
(*   SpecCap   a run of saveLog calls long enough to pass MAX_LOGS         *)
(***************************************************************************)
EXTENDS Naturals, Integers, Sequences, FiniteSets, TLC

VARIABLES
    status,      \* _status of each Alert object ("none": not constructed)
    alertType,   \* _type of the alert of each call
    contacts,    \* the contact list handed to each notifyAll call
    pc,          \* position of each notifyAll call
    results,     \* the local array `results` of each notifyAll call
    ret,         \* what each notifyAll call returned, NoReturn while it has not
    rows,        \* number of rows inserted into the "alerts" table
    invoked,     \* alert ids the notify-emergency function was invoked with
    insertRes,   \* outcome of the insert of each notifyAll call
    invokeRes,   \* outcome of the functions.invoke of each notifyAll call
    lastOp,      \* the last operation completed on an Alert object
    storage,     \* localStorage item "emergency_logs"
    nextId,      \* source of fresh log ids and timestamps
    logOp,       \* the last FileHandler operation and what it started from
    alerts,      \* the "alerts" table: row id -> row
    events,      \* the "events" table, in insertion order
    resp,        \* the last response to a request sent to notify-emergency directly
    runs,        \* the runs of the notify-emergency function suspended at an await
    admin,       \* alert ids whose 'status_changed' insert the admin page has pending
    message,     \* _message of each Alert object
    dispatched,  \* whether sendAlert has been called on each Alert object
    trig,        \* each triggerEmergency call: its input and how far it got
    triggers,    \* number of triggerEmergency calls
    ident,       \* _id and _userId of each Alert object
    cd,          \* the countdown of the enhanced page and its interval timers
    loc,         \* the LocationService singleton and the browser's position watches
    sends        \* the AuthorityAlert.sendAlert calls suspended at an await

vars == <<status, alertType, contacts, pc, results, ret, rows, invoked,
          insertRes, invokeRes, lastOp, storage, nextId, logOp,
          alerts, events, resp, runs, admin, message, dispatched, trig, triggers, ident, cd, loc,
          sends>>

notifyVars == <<alertType, contacts, pc, results, ret, insertRes, invokeRes>>
dbVars == <<rows, invoked, alerts>>
logVars == <<storage, nextId, logOp>>
fnVars == <<events, resp, runs, admin>>
msgVars == <<message, dispatched, ident, sends>>
trigVars == <<trig, triggers, cd, loc>>

(***************************************************************************)
(* Bounds of the model.                                                    *)
(***************************************************************************)
MaxContacts == 1
MaxRows == 2
MaxSaves == 3
ExtraAppends == 2
MaxEvents == 2
MaxCalls == 2
MaxSends == 2
MaxRuns == 2
MaxPageCalls == 1
MaxCountdowns == 2
MaxWatches == 3
MaxInflight == 2
MaxCaptures == 2

(***************************************************************************)
(* Alert.ts                                                                *)
(***************************************************************************)
AlertTypes == {"medical", "fire", "police", "general"}
AlertStatus == {"pending", "acknowledged", "resolved"}
NotConstructed == "none"

\* The calls of a behaviour, in the order they are made: a call of
\* triggerEmergency, or of a caller that builds an alert and hands it to
\* notifyAll.
Calls == 1..MaxCalls

\* The Alert objects of one call: the one the caller builds and the four
\* notifyAll builds.
Kinds == {"alert", "smsAlert", "emailAlert", "authorityAlert", "pushAlert"}
Objs == Calls \X Kinds
Obj(c, k) == <<c, k>>

\* The class of each object: the caller's alert is an AuthorityAlert.
Variant(o) ==
    CASE o[2] = "alert" -> "Authority"
      [] o[2] = "smsAlert" -> "SMS"
      [] o[2] = "emailAlert" -> "Email"
      [] o[2] = "authorityAlert" -> "Authority"
      [] o[2] = "pushAlert" -> "Push"

\* constructor: this._status = "pending"
ConstructedStatus == "pending"

\* set status(value) { this._status = value; }  -- returns the new _status
StatusSetter(old, value) == value

\* A message is known by the length of its text without trailing white
\* space and the length of that trailing white space.
Message(len, pad) == [len |-> len, pad |-> pad]

\* set message(value) { this._message = value; }  -- returns the new _message
MessageSetter(old, value) == value

\* toDatabase(): the row handed to insert; the table fills in the id and
\* leaves acknowledged_at and resolved_at null.
toDatabase(userId, type, msg, st) ==
    [user_id |-> userId, type |-> type, message |-> msg, status |-> st,
     acknowledged_at |-> "null", resolved_at |-> "null"]

\* crypto.randomUUID() of the n-th object built: never the id of a row,
\* which are 1, 2, ...
ObjectId(n) == 0 - n

ObjIndex(k) ==
    CASE k = "alert" -> 1 [] k = "smsAlert" -> 2 [] k = "emailAlert" -> 3
      [] k = "authorityAlert" -> 4 [] k = "pushAlert" -> 5

\* The _id and _userId the constructor gives object o: a fresh id for every
\* object of every call.
Constructed(userId, o) ==
    [id |-> ObjectId(5 * (o[1] - 1) + ObjIndex(o[2])), userId |-> userId]

\* The fields of an object that has not been built.
NoIdent == [id |-> 0, userId |-> "none"]

\* Position of a status on the line pending -> acknowledged -> resolved.
Rank(s) == CASE s = "pending" -> 0 [] s = "acknowledged" -> 1 [] s = "resolved" -> 2

NoOp == [op |-> "none", obj |-> "none", arg |-> "none", before |-> "none",
         success |-> FALSE, threw |-> FALSE]

(***************************************************************************)
(* supabase/functions/notify-emergency (index.ts and src/unnamed/part_005) *)
(***************************************************************************)
Users == {"u1", "u2"}

\* The Authorization header of a request: absent, a token auth.getUser()
\* does not accept, or the token of a signed-in user.
NoHeader == "none"
InvalidToken == "invalid"
AuthHeaders == {NoHeader, InvalidToken} \cup Users

\* .eq("id", alertId).single(): the row, when the query works and finds it.
AlertById(alertId, queryFails) ==
    IF ~queryFails /\ alertId \in 1..Len(alerts)
    THEN [error |-> FALSE, found |-> TRUE, user_id |-> alerts[alertId].user_id]
    ELSE [error |-> TRUE, found |-> FALSE, user_id |-> "none"]

\* .eq("id", alertId).eq("user_id", userId).single()
AlertByIdAndUser(alertId, userId, queryFails) ==
    IF ~queryFails /\ alertId \in 1..Len(alerts) /\ alerts[alertId].user_id = userId
    THEN [error |-> FALSE, found |-> TRUE, user_id |-> userId]
    ELSE [error |-> TRUE, found |-> FALSE, user_id |-> "none"]

\* auth.getUser() with the request's header: the user of a valid token.
getUser(auth) ==
    IF auth \in Users THEN [error |-> FALSE, user |-> auth]
    ELSE [error |-> TRUE, user |-> "none"]

NotificationsSent(alertId) == [alert_id |-> alertId, event_type |-> "notifications_sent"]

\* A request to the function: req.method, whether req.json() resolves, the
\* authorization header, and the alertId of a JSON body (0, the id of no
\* row, when the body is not JSON).
Methods == {"OPTIONS", "POST"}
Req(method, json, auth, alertId) ==
    [method |-> method, json |-> json, auth |-> auth, alertId |-> alertId]
NoReq == Req("none", FALSE, "none", 0)

\* supabase.functions.invoke("notify-emergency", {body: {alertId}}): a POST
\* with a JSON body and the token of the client's session.
Invoke(auth, alertId) == Req("POST", TRUE, auth, alertId)

\* The answer to a request. The body {success: true, ...} is that of the
\* last return of the try block; the answer to OPTIONS has a null body.
Response(handler, req, code, inserts) ==
    [handler |-> handler, method |-> req.method, json |-> req.json, auth |-> req.auth,
     alertId |-> req.alertId, status |-> code,
     success |-> code = 200 /\ req.method # "OPTIONS", inserts |-> inserts]

\* supabase.functions.invoke resolves with {data} when the function
\* answers 2xx and with {error} when it answers anything else.
InvokeResult(code) == IF code = 200 THEN "ok" ELSE "rejected"

\* What the handler answers with when it does not go on to its next query.
Proceeds == 0

\* index.ts from the request to the answer of its alerts query: an OPTIONS
\* request is answered before the try block; the handler then reads alertId
\* from the body (req.json() rejects for a body that is not JSON, and the
\* catch block answers 500) and works with the service-role client; the
\* request's headers are not looked at.
NotifyEmergency(req, queryFails) ==
    IF req.method = "OPTIONS" THEN 200
    ELSE IF ~req.json THEN 500
    ELSE IF AlertById(req.alertId, queryFails).error THEN 500
    ELSE Proceeds

\* part_005 from the request to the answer of its alerts query: an OPTIONS
\* request is answered before the try block; then the authorization header
\* is checked, the body is read (req.json() rejects for a body that is not
\* JSON, and the catch block answers 500), and getUser and the ownership of
\* the alert are checked.
NotifyEmergencyVerified(req, queryFails) ==
    LET u == getUser(req.auth)
        alert == AlertByIdAndUser(req.alertId, u.user, queryFails)
    IN  IF req.method = "OPTIONS" THEN 200
        ELSE IF req.auth = NoHeader THEN 401
        ELSE IF ~req.json THEN 500
        ELSE IF u.error \/ u.user = "none" THEN 401
        ELSE IF alert.error \/ ~alert.found THEN 403
        ELSE Proceeds

\* A run of the handler between its awaits. The awaits that touch nothing
\* held here (req.json(), getUser, the contacts query) are taken with the
\* step that follows them.
\*   req    the request the run serves
\*   phase  "found":    the alerts query has given the row
\*          "inserted": the events insert has been sent and answered
\*   origin who waits for the answer: <<"send", s>> a suspended sendAlert,
\*          <<"trigger", c>> a triggerEmergency of the basic page,
\*          <<"request", 0>> a request sent to the function directly
NoOrigin == <<"none", 0>>
NoRun == [phase |-> "free", build |-> "none", req |-> NoReq, code |-> 0, inserts |-> 0,
          origin |-> NoOrigin]
Runs == 1..MaxRuns

\* The first record that holds no run.
FreeRun(r) == runs[r] = NoRun /\ \A q \in Runs : q < r => runs[q] # NoRun

\* The invocation of `origin` has been sent and has not reached the function.
Waiting(origin) ==
    CASE origin[1] = "send" -> sends[origin[2]].phase = "invoked"
      [] origin[1] = "trigger" ->
             /\ trig[origin[2]].called /\ trig[origin[2]].flow = "basic"
             /\ trig[origin[2]].step = "invoked"
      [] origin[1] = "request" -> TRUE

\* The function has taken up the invocation of `origin`.
Served(origin) ==
    /\ sends' = IF origin[1] = "send"
                THEN [sends EXCEPT ![origin[2]].phase = "serving"] ELSE sends
    /\ trig' = IF origin[1] = "trigger"
               THEN [trig EXCEPT ![origin[2]].step = "serving"] ELSE trig
    /\ UNCHANGED resp

\* return new Response(..., {status: code}): supabase.functions.invoke
\* resolves for the sendAlert that awaits it; the basic page discards the
\* answer, toasts and reaches its finally block.
Answered(origin, build, req, code, inserts) ==
    /\ sends' = IF origin[1] = "send"
                THEN [sends EXCEPT ![origin[2]].phase = "responded",
                                   ![origin[2]].inv = InvokeResult(code)]
                ELSE sends
    /\ trig' = IF origin[1] = "trigger"
               THEN [trig EXCEPT ![origin[2]].step = "finished"] ELSE trig
    /\ resp' = IF origin[1] = "request"
               THEN Response(build, req, code, inserts) ELSE resp

\* The request reaches the function, which runs to its first answer (to an
\* OPTIONS request, a failed check, a body that is not JSON or a failed
\* alerts query), or to the answer of its alerts query and on to its
\* contacts query.
NotifyEmergencyReceived(build, req, origin, queryFails) ==
    /\ Waiting(origin)
    /\ LET code == IF build = "index.ts"
                   THEN NotifyEmergency(req, queryFails)
                   ELSE NotifyEmergencyVerified(req, queryFails)
       IN  IF code # Proceeds
           THEN /\ Answered(origin, build, req, code, 0)
                /\ UNCHANGED runs
           ELSE /\ \E r \in Runs :
                      /\ FreeRun(r)
                      /\ runs' = [runs EXCEPT ![r] =
                                     [phase |-> "found", build |-> build, req |-> req,
                                      code |-> Proceeds, inserts |-> 0, origin |-> origin]]
                /\ Served(origin)
    /\ UNCHANGED <<status, lastOp, notifyVars, dbVars, logVars, message, dispatched, ident,
                   events, admin, triggers, cd, loc>>

\* if (contactsError) throw contactsError; await supabase.from("events")
\* .insert({...}): the handler does not read the result of the insert, so
\* an insert answered with an error stores nothing and the handler goes on.
\* index.ts then reads alert.profiles.full_name, which throws when the
\* alert has no profile row; the catch block answers 500.
NotifyEmergencyInsert(r, contactsFail, eventsFail, profileNull) ==
    /\ runs[r].phase = "found"
    /\ IF contactsFail
       THEN /\ Answered(runs[r].origin, runs[r].build, runs[r].req, 500, 0)
            /\ runs' = [runs EXCEPT ![r] = NoRun]
            /\ UNCHANGED events
       ELSE /\ events' = IF eventsFail THEN events
                         ELSE Append(events, NotificationsSent(runs[r].req.alertId))
            /\ runs' = [runs EXCEPT ![r].phase = "inserted",
                                    ![r].inserts = IF eventsFail THEN 0 ELSE 1,
                                    ![r].code = IF runs[r].build = "index.ts" /\ profileNull
                                                THEN 500 ELSE 200]
            /\ UNCHANGED <<sends, trig, resp>>
    /\ UNCHANGED <<status, lastOp, notifyVars, dbVars, logVars, message, dispatched, ident,
                   admin, triggers, cd, loc>>

\* The run resumes after its events insert and answers.
NotifyEmergencyRespond(r) ==
    /\ runs[r].phase = "inserted"
    /\ Answered(runs[r].origin, runs[r].build, runs[r].req, runs[r].code, runs[r].inserts)
    /\ runs' = [runs EXCEPT ![r] = NoRun]
    /\ UNCHANGED <<status, lastOp, notifyVars, dbVars, logVars, message, dispatched, ident,
                   events, admin, triggers, cd, loc>>

(***************************************************************************)
(* AlertTypes.ts (src/unnamed/part_001)                                    *)
(***************************************************************************)
\* Outcomes of the two external calls of AuthorityAlert.sendAlert.
\*   insert:  "ok" | "error" (alertError set)
\*   invoke:  "ok" | "rejected" (resolves with {error}) | "throws"
InsertOutcomes == {"ok", "error"}
InvokeOutcomes == {"ok", "rejected", "throws"}

\* The lookup with two of its entries exchanged.
determineAuthoritySwapped(type) ==
    CASE type = "medical" -> "911 Medical"
      [] type = "fire" -> "Police Department"
      [] type = "police" -> "Fire Department"
      [] type = "general" -> "Emergency Services"

\* const authorities = { medical: ..., fire: ..., police: ..., general: ... }
determineAuthority(type) ==
    CASE type = "medical" -> "911 Medical"
      [] type = "fire" -> "Fire Department"
      [] type = "police" -> "Police Department"
      [] type = "general" -> "Emergency Services"

\* What one sendAlert call yields: the returned {success, message}, the
\* value it assigns to this.status, and whether an exception left the call.
Outcome(ok, msg, st) == [success |-> ok, message |-> msg, status |-> st, threw |-> FALSE]

SMSSendAlert(n) ==
    Outcome(TRUE, "SMS alerts sent to " \o ToString(n) \o " contacts", "acknowledged")

EmailSendAlert(n) ==
    Outcome(TRUE, "Email alerts sent to " \o ToString(n) \o " contacts", "acknowledged")

\* A push channel that closes the alert on delivery.
PushSendAlertResolves(n) ==
    Outcome(TRUE, "Push notifications sent to " \o ToString(n) \o " devices", "resolved")

PushSendAlert(n) ==
    Outcome(TRUE, "Push notifications sent to " \o ToString(n) \o " devices", "acknowledged")

\* AuthorityAlert.sendAlert without its catch block: the exception leaves it.
AuthoritySendAlertNoCatch(type, ins, inv) ==
    IF ins = "error" \/ inv = "throws"
    THEN [success |-> FALSE, message |-> "uncaught", status |-> "unchanged", threw |-> TRUE]
    ELSE Outcome(TRUE, determineAuthority(type) \o " has been notified", "acknowledged")

\* try { insert; if (alertError) throw; await invoke; status = acknowledged }
\* catch { status = pending; return failure }
AuthoritySendAlert(type, ins, inv) ==
    IF ins = "error" \/ inv = "throws"
    THEN Outcome(FALSE, "Failed to notify authorities", "pending")
    ELSE Outcome(TRUE, determineAuthority(type) \o " has been notified", "acknowledged")

\* An AuthorityAlert that takes over the id of the row it inserted.
IdentAdoptsRowId(idn, ins, rowId) == IF ins = "ok" THEN [idn EXCEPT !.id = rowId] ELSE idn

\* sendAlert reads alertData.id for the invoke only; _id and _userId have
\* no setter and are assigned in the constructor alone.
IdentAfterInsert(idn, ins, rowId) == idn

\* alertData of an insert that failed.
NoRow == 0

\* The insert adds a row exactly when it succeeds; the notifier is invoked
\* with the id of that row, and only when the insert succeeded.
RowsAfter(ins) == IF ins = "ok" THEN rows + 1 ELSE rows
AlertsAfter(ins, row) == IF ins = "ok" THEN Append(alerts, row) ELSE alerts
\* The notifier invoked whether or not the insert succeeded.
InvokedAfterAlways(ins, rowId) == invoked \cup {rowId}
InvokedAfter(ins, rowId) == IF ins = "ok" THEN invoked \cup {rowId} ELSE invoked

(***************************************************************************)
(* NotificationService.ts                                                  *)
(***************************************************************************)
Undefined == "<undefined>"
PhoneValues == {"", "+15550100"}
EmailValues == {Undefined, "", "a@example.org"}
ContactValues == [phone : PhoneValues, email : EmailValues]
ContactLists == UNION {[1..n -> ContactValues] : n \in 0..MaxContacts}

\* Boolean(v) for the values a phone or an email takes
Truthy(v) == v # Undefined /\ v # ""

\* contacts.map((c) => c.phone).filter(Boolean)
phoneNumbers(cs) == SelectSeq([i \in 1..Len(cs) |-> cs[i].phone], Truthy)
\* contacts.map((c) => c.email).filter(Boolean)
emailAddresses(cs) == SelectSeq([i \in 1..Len(cs) |-> cs[i].email], Truthy)

\* The SMS test taken on the unfiltered list: if (contacts.length > 0)
SmsApplicableAnyContact(cs) == Len(cs) > 0

\* if (phoneNumbers.length > 0)
SmsApplicable(cs) == Len(phoneNumbers(cs)) > 0
\* if (emailAddresses.length > 0)
EmailApplicable(cs) == Len(emailAddresses(cs)) > 0

\* ["device-token-1", "device-token-2"]
DeviceTokens == <<"device-token-1", "device-token-2">>

\* { type: T, ...result }
Result(type, out) == [type |-> type, success |-> out.success, message |-> out.message]

\* results.some((r) => r.success)
anySuccess(rs) == \E i \in 1..Len(rs) : rs[i].success

\* results.every((r) => r.success)
allSuccess(rs) == \A i \in 1..Len(rs) : rs[i].success

NoReturn == [returned |-> FALSE, success |-> FALSE, results |-> <<>>]

\* The caller builds its alert and calls notifyAll(alert, contacts).
\* `Emergency ${alertType} alert triggered`
DefaultMessage(t) == Message(Len("Emergency ") + Len(t) + Len(" alert triggered"), 0)

\* user.id of the session
SessionUser == "u1"

\* The Authorization header the client of a signed-in user sends with an
\* invocation: the access token of that user's session.
ClientAuth(userId) == userId

\* A call of AuthorityAlert.sendAlert between its awaits.
\*   phase  "inserted":  the insert has been sent and answered
\*          "invoked":   the notifier has been invoked with alertData.id
\*          "serving":   the function is running for the invocation
\*          "responded": the invocation has been answered
\*   owner  the notifyAll call awaiting it, NoOwner for any other caller
NoObj == <<0, "none">>
NoOwner == 0
NoSend == [phase |-> "free", obj |-> NoObj, owner |-> NoOwner, ins |-> "none",
           rowId |-> NoRow, inv |-> "none"]
Sends == 1..MaxSends

\* The first record that holds no suspended call.
FreeSend(s) == sends[s] = NoSend /\ \A r \in Sends : r < s => sends[r] # NoSend

\* AuthorityAlert.sendAlert up to its first await: the row toDatabase()
\* gives at the moment of the call is sent to the table.
SendInsert(o, owner, ins, row) ==
    /\ ins = "error" \/ rows < MaxRows
    /\ \E s \in Sends :
          /\ FreeSend(s)
          /\ sends' = [sends EXCEPT ![s] =
                          [phase |-> "inserted", obj |-> o, owner |-> owner, ins |-> ins,
                           rowId |-> IF ins = "ok" THEN rows + 1 ELSE NoRow,
                           inv |-> "none"]]
    /\ rows' = RowsAfter(ins)
    /\ alerts' = AlertsAfter(ins, row)
    /\ dispatched' = [dispatched EXCEPT ![o] = TRUE]

\* The insert was answered without an error: sendAlert goes on to
\* supabase.functions.invoke("notify-emergency", {body: {alertId}}).
SendInvoke(s) ==
    /\ sends[s].phase = "inserted" /\ sends[s].ins = "ok"
    /\ invoked' = InvokedAfter(sends[s].ins, sends[s].rowId)
    /\ ident' = [ident EXCEPT ![sends[s].obj] =
                    IdentAfterInsert(@, sends[s].ins, sends[s].rowId)]
    /\ sends' = [sends EXCEPT ![s].phase = "invoked"]
    /\ UNCHANGED <<status, lastOp, notifyVars, rows, alerts, logVars, message, dispatched,
                   fnVars, trigVars>>

\* The invocation does not reach the function: invoke resolves with an
\* error, or an exception leaves it.
InvokeLost(s, inv) ==
    /\ sends[s].phase = "invoked"
    /\ inv \in {"rejected", "throws"}
    /\ sends' = [sends EXCEPT ![s].phase = "responded", ![s].inv = inv]
    /\ UNCHANGED <<status, lastOp, notifyVars, dbVars, logVars, message, dispatched, ident,
                   fnVars, trigVars>>

\* A suspended sendAlert whose next segment is its last: the insert was
\* answered with an error, or the invocation was answered.
Returning(a) == a.phase = "responded" \/ (a.phase = "inserted" /\ a.ins = "error")

\* The first slots are taken in order: call c is made when the calls
\* before it have been made.
Made(c) == status[Obj(c, "alert")] # NotConstructed \/ trig[c].called
NextCall(c) ==
    /\ ~Made(c)
    /\ \A d \in Calls : d < c => Made(d)

\* new AuthorityAlert(userId, type, message, location, locationAddress) of
\* the caller.
NewAlert(c, userId, t, msg) ==
    /\ status' = [status EXCEPT ![Obj(c, "alert")] = ConstructedStatus]
    /\ message' = [message EXCEPT ![Obj(c, "alert")] = msg]
    /\ ident' = [ident EXCEPT ![Obj(c, "alert")] = Constructed(userId, Obj(c, "alert"))]
    /\ alertType' = [alertType EXCEPT ![c] = t]

\* new XAlert(alert.userId, alert.type, alert.message, ...): the channel
\* object takes the fields of the alert passed in and a fresh id.
MessageOf(c, k) == [message EXCEPT ![Obj(c, k)] = message[Obj(c, "alert")]]
IdentOf(c, k) ==
    [ident EXCEPT ![Obj(c, k)] = Constructed(ident[Obj(c, "alert")].userId, Obj(c, k))]

\* notifyAll runs without a pause from one await to the next. Its positions
\* name the await it is suspended at:
\*   "sms", "email", "push"  await xAlert.sendAlert(), the call has returned
\*   "awaiting"              await authorityAlert.sendAlert(), the call is
\*                           itself suspended at one of its awaits
\*   "authority"             await authorityAlert.sendAlert(), the call has
\*                           returned
\* The block reached when notifyAll goes on from block `from`: the SMS and
\* Email blocks are passed over when their list is empty.
NextChannel(from, cs) ==
    IF from = "sms" /\ SmsApplicable(cs) THEN "sms"
    ELSE IF from \in {"sms", "email"} /\ EmailApplicable(cs) THEN "email"
    ELSE IF from \in {"sms", "email", "authority"} THEN "authority"
    ELSE from

\* new XAlert(...); xAlert.sendAlert() of the SMS, Email and Push blocks:
\* sendAlert assigns this.status and returns, and notifyAll is suspended at
\* its await.
ChannelSend(c, k, out, at) ==
    /\ status' = [status EXCEPT ![Obj(c, k)] = StatusSetter(ConstructedStatus, out.status)]
    /\ message' = MessageOf(c, k)
    /\ ident' = IdentOf(c, k)
    /\ dispatched' = [dispatched EXCEPT ![Obj(c, k)] = TRUE]
    /\ pc' = [pc EXCEPT ![c] = at]
    /\ UNCHANGED <<sends, rows, alerts, insertRes, ret>>

\* new AuthorityAlert(...); authorityAlert.sendAlert() up to its first
\* await: notifyAll is suspended until that call returns.
AuthoritySend(c, ins) ==
    /\ status' = [status EXCEPT ![Obj(c, "authorityAlert")] = ConstructedStatus]
    /\ message' = MessageOf(c, "authorityAlert")
    /\ ident' = IdentOf(c, "authorityAlert")
    /\ SendInsert(Obj(c, "authorityAlert"), c, ins,
                  toDatabase(ident[Obj(c, "alert")].userId, alertType[c],
                             message[Obj(c, "alert")], ConstructedStatus))
    /\ insertRes' = [insertRes EXCEPT ![c] = ins]
    /\ pc' = [pc EXCEPT ![c] = "awaiting"]
    /\ UNCHANGED ret

\* The return value built from the outcomes recorded before the last one.
NotifyAllReturnNoAwait(c) ==
    /\ ret' = [ret EXCEPT ![c] = [returned |-> TRUE, success |-> allSuccess(results[c]),
                                  results |-> results[c]]]
    /\ pc' = [pc EXCEPT ![c] = "done"]

\* const allSuccess = results.every(...); return { success: allSuccess, results };
NotifyAllReturn(c) ==
    /\ ret' = [ret EXCEPT ![c] = [returned |-> TRUE, success |-> allSuccess(results'[c]),
                                  results |-> results'[c]]]
    /\ pc' = [pc EXCEPT ![c] = "done"]

\* notifyAll from block `from` to its next await or to its return; `ins` is
\* the answer the alerts insert gets when this run sends it.
Proceed(c, cs, from, ins) ==
    LET k == NextChannel(from, cs)
    IN  CASE k = "sms" ->
                 ChannelSend(c, "smsAlert", SMSSendAlert(Len(phoneNumbers(cs))), "sms")
          [] k = "email" ->
                 ChannelSend(c, "emailAlert", EmailSendAlert(Len(emailAddresses(cs))),
                             "email")
          [] k = "authority" -> AuthoritySend(c, ins)
          [] k = "push" ->
                 ChannelSend(c, "pushAlert", PushSendAlert(Len(DeviceTokens)), "push")
          [] k = "return" ->
                 /\ NotifyAllReturn(c)
                 /\ UNCHANGED <<status, message, ident, dispatched, sends, rows, alerts,
                                insertRes>>
          [] k = "threw" ->
                 /\ pc' = [pc EXCEPT ![c] = "threw"]
                 /\ UNCHANGED <<status, message, ident, dispatched, sends, rows, alerts,
                                insertRes, ret>>

\* notifyAll(alert, contacts) is entered: const results = [], and on to its
\* first await.
NotifyAllCall(c, cs, ins) ==
    /\ pc[c] = "idle"
    /\ status[Obj(c, "alert")] # NotConstructed
    /\ contacts' = [contacts EXCEPT ![c] = cs]
    /\ results' = [results EXCEPT ![c] = <<>>]
    /\ Proceed(c, cs, "sms", ins)
    /\ UNCHANGED <<alertType, invokeRes, invoked, lastOp, logVars, fnVars>>

\* A resumption that goes straight to the return once a channel failed.
ChannelBlockStopOnFailure(c, type, out, next, ins) ==
    /\ results' = [results EXCEPT ![c] = Append(@, Result(type, out))]
    /\ Proceed(c, contacts[c], IF out.success THEN next ELSE "return", ins)

\* A resumption that rethrows a failed outcome instead of recording it.
ChannelBlockRethrows(c, type, out, next, ins) ==
    IF out.threw \/ ~out.success
    THEN /\ UNCHANGED results
         /\ Proceed(c, contacts[c], "threw", ins)
    ELSE /\ results' = [results EXCEPT ![c] = Append(@, Result(type, out))]
         /\ Proceed(c, contacts[c], next, ins)

\* notifyAll resumes after `await xAlert.sendAlert()`: results.push({type,
\* ...result}), and on from block `next` to the next await or the return.
\* An exception that left sendAlert leaves notifyAll too (notifyAll has no
\* try/catch).
ChannelBlock(c, type, out, next, ins) ==
    IF out.threw
    THEN /\ UNCHANGED results
         /\ Proceed(c, contacts[c], "threw", ins)
    ELSE /\ results' = [results EXCEPT ![c] = Append(@, Result(type, out))]
         /\ Proceed(c, contacts[c], next, ins)

\* notifyAll resumes after await smsAlert.sendAlert()
AfterSms(c, ins) ==
    /\ pc[c] = "sms"
    /\ ChannelBlock(c, "SMS", SMSSendAlert(Len(phoneNumbers(contacts[c]))), "email", ins)
    /\ UNCHANGED <<alertType, contacts, invokeRes, invoked, lastOp, logVars, fnVars,
                   trigVars>>

\* notifyAll resumes after await emailAlert.sendAlert()
AfterEmail(c, ins) ==
    /\ pc[c] = "email"
    /\ ChannelBlock(c, "Email", EmailSendAlert(Len(emailAddresses(contacts[c]))),
                    "authority", ins)
    /\ UNCHANGED <<alertType, contacts, invokeRes, invoked, lastOp, logVars, fnVars,
                   trigVars>>

\* The last segment of the sendAlert call notifyAll awaits: this.status =
\* "acknowledged", or the catch block with this.status = "pending".
AuthorityReturn(c) ==
    /\ pc[c] = "awaiting"
    /\ \E s \in Sends :
          /\ sends[s].owner = c /\ Returning(sends[s])
          /\ LET out == AuthoritySendAlert(alertType[c], sends[s].ins, sends[s].inv)
             IN  status' = [status EXCEPT ![sends[s].obj] =
                               IF out.threw THEN @ ELSE StatusSetter(@, out.status)]
          /\ invoked' = IF sends[s].phase = "inserted"
                        THEN InvokedAfter(sends[s].ins, sends[s].rowId) ELSE invoked
          /\ ident' = IF sends[s].phase = "inserted"
                      THEN [ident EXCEPT ![sends[s].obj] =
                               IdentAfterInsert(@, sends[s].ins, sends[s].rowId)]
                      ELSE ident
          /\ invokeRes' = [invokeRes EXCEPT ![c] = sends[s].inv]
          /\ sends' = [sends EXCEPT ![s] = NoSend]
    /\ pc' = [pc EXCEPT ![c] = "authority"]
    /\ UNCHANGED <<alertType, contacts, results, ret, insertRes, rows, alerts, lastOp,
                   logVars, message, dispatched, fnVars, trigVars>>

\* notifyAll resumes after await authorityAlert.sendAlert()
AfterAuthority(c) ==
    /\ pc[c] = "authority"
    /\ ChannelBlock(c, "Authority",
                    AuthoritySendAlert(alertType[c], insertRes[c], invokeRes[c]), "push",
                    "ok")
    /\ UNCHANGED <<alertType, contacts, invokeRes, invoked, lastOp, logVars, fnVars,
                   trigVars>>

\* notifyAll resumes after await pushAlert.sendAlert(), and returns.
AfterPush(c) ==
    /\ pc[c] = "push"
    /\ ChannelBlock(c, "Push", PushSendAlert(Len(DeviceTokens)), "return", "ok")
    /\ UNCHANGED <<alertType, contacts, invokeRes, invoked, lastOp, logVars, fnVars,
                   trigVars>>

(***************************************************************************)
(* Operations on a constructed Alert object, outside notifyAll.            *)
(***************************************************************************)
SendAlertOutcome(o, ins, inv) ==
    CASE Variant(o) = "SMS" -> SMSSendAlert(1)
      [] Variant(o) = "Email" -> EmailSendAlert(1)
      [] Variant(o) = "Push" -> PushSendAlert(Len(DeviceTokens))
      [] Variant(o) = "Authority" -> AuthoritySendAlert(alertType[o[1]], ins, inv)

\* What a completed sendAlert leaves behind.
SendAlertDone(o, out) ==
    /\ status' = [status EXCEPT ![o] = IF out.threw THEN @ ELSE StatusSetter(@, out.status)]
    /\ lastOp' = [op |-> "sendAlert", obj |-> o, arg |-> "none", before |-> status[o],
                  success |-> out.success, threw |-> out.threw]

\* o.sendAlert(): the SMS, Email and Push variants run to their return
\* without an await; the Authority variant runs to its first await.
SendAlert(o, ins) ==
    /\ status[o] # NotConstructed
    /\ IF Variant(o) = "Authority"
       THEN /\ SendInsert(o, NoOwner, ins,
                          toDatabase(ident[o].userId, alertType[o[1]], message[o], status[o]))
            /\ UNCHANGED <<status, lastOp, invoked, ident>>
       ELSE /\ ins = "ok"
            /\ SendAlertDone(o, SendAlertOutcome(o, "ok", "ok"))
            /\ dispatched' = [dispatched EXCEPT ![o] = TRUE]
            /\ UNCHANGED <<dbVars, ident, sends>>
    /\ UNCHANGED <<notifyVars, logVars, message, fnVars, trigVars>>

\* The last segment of an AuthorityAlert.sendAlert that no notifyAll
\* awaits: this.status = "acknowledged", or the catch block.
SendAlertReturn(s) ==
    /\ sends[s].owner = NoOwner /\ Returning(sends[s])
    /\ SendAlertDone(sends[s].obj,
                     SendAlertOutcome(sends[s].obj, sends[s].ins, sends[s].inv))
    /\ invoked' = IF sends[s].phase = "inserted"
                  THEN InvokedAfter(sends[s].ins, sends[s].rowId) ELSE invoked
    /\ ident' = IF sends[s].phase = "inserted"
                THEN [ident EXCEPT ![sends[s].obj] =
                         IdentAfterInsert(@, sends[s].ins, sends[s].rowId)]
                ELSE ident
    /\ sends' = [sends EXCEPT ![s] = NoSend]
    /\ UNCHANGED <<notifyVars, rows, alerts, logVars, message, dispatched, fnVars, trigVars>>

\* o.status = value
SetStatus(o, value) ==
    /\ status[o] # NotConstructed
    /\ status' = [status EXCEPT ![o] = StatusSetter(@, value)]
    /\ lastOp' = [op |-> "setStatus", obj |-> o, arg |-> value, before |-> status[o],
                  success |-> TRUE, threw |-> FALSE]
    /\ UNCHANGED <<notifyVars, dbVars, logVars, msgVars, fnVars, trigVars>>

\* o.message = value
SetMessage(o, value) ==
    /\ status[o] # NotConstructed
    /\ message' = [message EXCEPT ![o] = MessageSetter(@, value)]
    /\ lastOp' = [op |-> "setMessage", obj |-> o, arg |-> value, before |-> message[o],
                  success |-> TRUE, threw |-> FALSE]
    /\ UNCHANGED <<status, dispatched, ident, sends, notifyVars, dbVars, logVars, fnVars,
                   trigVars>>

(***************************************************************************)
(* FileHandler.ts                                                          *)
(***************************************************************************)
MAX_LOGS == 100

\* The userId of a log entry: the id of a user, or the empty string.
LogUsers == {"u1", "u2", ""}
LogTypes == {"medical", "general"}

\* An EmergencyLog in memory; its timestamp is a Date.
EmergencyLog(id, userId, type, st, ms) ==
    [id |-> id, userId |-> userId, type |-> type, status |-> st,
     timestamp |-> <<"Date", ms>>]

\* JSON.stringify of one log: Date.prototype.toJSON turns the Date into its
\* ISO string.
toJSON(log) == [log EXCEPT !.timestamp = <<"ISO", @[2]>>]
\* JSON.stringify(logs)
stringify(logs) == [i \in 1..Len(logs) |-> toJSON(logs[i])]
\* { ...log, timestamp: new Date(log.timestamp) }
revive(e) == [e EXCEPT !.timestamp = <<"Date", @[2]>>]

\* readLogs(): [] when getItem/JSON.parse throws or the item is missing
readLogs(st, getThrows) ==
    IF getThrows \/ ~st.present
    THEN <<>>
    ELSE [i \in 1..Len(st.logs) |-> revive(st.logs[i])]

\* logs.unshift(log)
unshift(logs, log) == <<log>> \o logs
\* logs.slice(0, end)
slice0(logs, end) == SubSeq(logs, 1, IF Len(logs) < end THEN Len(logs) ELSE end)

\* saveLog with push in place of unshift
trimmedLogsPushBack(logs, log) == slice0(Append(logs, log), MAX_LOGS)

\* saveLog: logs.unshift(log); trimmedLogs = logs.slice(0, MAX_LOGS)
trimmedLogs(logs, log) == slice0(unshift(logs, log), MAX_LOGS)

\* deleteLog with the test inverted: logs.filter((log) => log.id === logId)
filteredLogsInverted(logs, logId) == SelectSeq(logs, LAMBDA l : l.id = logId)

\* deleteLog: logs.filter((log) => log.id !== logId)
filteredLogs(logs, logId) == SelectSeq(logs, LAMBDA l : l.id # logId)

\* localStorage.setItem(STORAGE_KEY, JSON.stringify(value)); a throwing
\* setItem leaves the item as it was (the caller's catch logs the error).
setItem(value, setThrows) ==
    IF setThrows THEN storage ELSE [present |-> TRUE, logs |-> stringify(value)]

\* What a method declared `: void` hands back to its caller.
VoidReturn == "undefined"

SaveLog(log, getThrows, setThrows) ==
    /\ storage' = setItem(trimmedLogs(readLogs(storage, getThrows), log), setThrows)
    /\ logOp' = [op |-> "saveLog", id |-> log.id, before |-> readLogs(storage, FALSE),
                 threw |-> FALSE, failed |-> getThrows \/ setThrows, readFailed |-> getThrows,
                 result |-> VoidReturn]
    /\ nextId' = nextId + 1
    /\ UNCHANGED <<status, lastOp, notifyVars, dbVars, msgVars, fnVars>>

DeleteLog(logId, getThrows, setThrows) ==
    /\ storage' = setItem(filteredLogs(readLogs(storage, getThrows), logId), setThrows)
    /\ logOp' = [op |-> "deleteLog", id |-> logId, before |-> readLogs(storage, FALSE),
                 threw |-> FALSE, failed |-> getThrows \/ setThrows, readFailed |-> getThrows,
                 result |-> VoidReturn]
    /\ UNCHANGED <<nextId, status, lastOp, notifyVars, dbVars, msgVars, fnVars, trigVars>>

\* localStorage.removeItem(STORAGE_KEY)
ClearAllLogs(removeThrows) ==
    /\ storage' = IF removeThrows THEN storage ELSE [present |-> FALSE, logs |-> <<>>]
    /\ logOp' = [op |-> "clearAllLogs", id |-> 0, before |-> readLogs(storage, FALSE),
                 threw |-> FALSE, failed |-> removeThrows, readFailed |-> FALSE,
                 result |-> VoidReturn]
    /\ UNCHANGED <<nextId, status, lastOp, notifyVars, dbVars, msgVars, fnVars, trigVars>>

\* readUserLogs(userId): allLogs.filter((log) => log.userId === userId)
\* readUserLogs without its filter.
readUserLogsUnfiltered(st, userId, getThrows) == readLogs(st, getThrows)

readUserLogs(st, userId, getThrows) ==
    SelectSeq(readLogs(st, getThrows), LAMBDA l : l.userId = userId)

\* The counting step written as an assignment: byX[k] = 1
bumpAssign(acc, k) == [x \in DOMAIN acc \cup {k} |-> IF x = k THEN 1 ELSE acc[x]]

\* byX[k] = (byX[k] || 0) + 1
bump(acc, k) ==
    [x \in DOMAIN acc \cup {k} |->
        IF x = k THEN (IF k \in DOMAIN acc THEN acc[k] ELSE 0) + 1 ELSE acc[x]]

\* logs.forEach((log) => { byX[log[field]] = ... }) over the first n entries
RECURSIVE tally(_, _, _)
tally(logs, n, field) ==
    IF n = 0 THEN [x \in {} |-> 0] ELSE bump(tally(logs, n - 1, field), logs[n][field])

\* getStatistics(userId?)
getStatistics(st, userId, getThrows) ==
    LET logs == IF Truthy(userId) THEN readUserLogs(st, userId, getThrows)
                ELSE readLogs(st, getThrows)
    IN [total |-> Len(logs),
        byType |-> tally(logs, Len(logs), "type"),
        byStatus |-> tally(logs, Len(logs), "status")]

(***************************************************************************)
(* Admin page (part_003)                                                   *)
(***************************************************************************)
\* The items of the status Select.
SelectItems == {"pending", "acknowledged", "resolved"}

\* new Date().toISOString(), as opposed to the column's null.
Now == "set"

\* updateData: the status, acknowledged_at on a first acknowledgement,
\* resolved_at on a resolution.
updateData(row, newStatus) ==
    [status |-> newStatus,
     acknowledged_at |-> IF newStatus = "acknowledged" /\ row.acknowledged_at = "null"
                         THEN Now ELSE row.acknowledged_at,
     resolved_at |-> IF ~(newStatus = "acknowledged" /\ row.acknowledged_at = "null")
                        /\ newStatus = "resolved"
                     THEN Now ELSE row.resolved_at]

\* .update(updateData).eq("id", alertId): the columns named in updateData
\* are overwritten, the others kept.
UpdateRow(row, u) ==
    [row EXCEPT !.status = u.status, !.acknowledged_at = u.acknowledged_at,
                !.resolved_at = u.resolved_at]

StatusChanged(alertId) == [alert_id |-> alertId, event_type |-> "status_changed"]

\* The 'status_changed' events stored so far.
StatusChanges == Cardinality({i \in 1..Len(events) : events[i].event_type = "status_changed"})

\* updateAlertStatus up to the answer of its update: on an error it toasts
\* and returns, otherwise it goes on to its events insert.
updateAlertStatus(alertId, newStatus, updateError) ==
    /\ alertId \in 1..Len(alerts)
    /\ StatusChanges + Len(admin) < MaxEvents
    /\ alerts' = IF updateError THEN alerts
                 ELSE [alerts EXCEPT ![alertId] = UpdateRow(@, updateData(@, newStatus))]
    /\ admin' = IF updateError THEN admin ELSE Append(admin, alertId)
    /\ lastOp' = [op |-> "updateAlertStatus", obj |-> alertId, arg |-> newStatus,
                  before |-> alerts[alertId].status, success |-> ~updateError,
                  threw |-> FALSE]
    /\ UNCHANGED <<status, notifyVars, rows, invoked, logVars, msgVars, events, resp, runs,
                   trigVars>>

\* await supabase.from("events").insert({alert_id: alertId, event_type:
\* "status_changed", ...}) of the i-th pending call: the result is not
\* read, so an insert answered with an error stores nothing.
StatusChangeLogged(i, eventsFail) ==
    /\ i \in 1..Len(admin)
    /\ events' = IF eventsFail THEN events ELSE Append(events, StatusChanged(admin[i]))
    /\ admin' = SubSeq(admin, 1, i - 1) \o SubSeq(admin, i + 1, Len(admin))
    /\ UNCHANGED <<status, lastOp, notifyVars, dbVars, logVars, msgVars, resp, runs, trigVars>>

(***************************************************************************)
(* pages/Emergency.tsx: triggerEmergency of both page components           *)
(***************************************************************************)
\* A message is Message(len, pad): len characters between its first and
\* last non-blank character, pad blanks around them.
Length(m) == m.len + m.pad
trim(m) == Message(m.len, 0)
EmptyString == Message(0, 0)

\* alertSchema.safeParse({type, message: message || undefined, latitude,
\* longitude, location_address}).success
alertSchema(inp) ==
    /\ inp.type \in {"medical", "fire", "police", "general"}
    /\ inp.message = EmptyString \/ Length(trim(inp.message)) <= 1000
    /\ inp.lat >= -90 /\ inp.lat <= 90
    /\ inp.lng >= -180 /\ inp.lng <= 180
    /\ inp.address <= 500

\* if (!user || !location) return;  ...  if (!result.success) { toast; return; }
ReturnsEarly(inp) == ~inp.user \/ ~inp.location \/ ~alertSchema(inp)

\* message || `Emergency ${alertType} alert triggered`
MessageOrDefault(inp) ==
    IF inp.message = EmptyString THEN DefaultMessage(inp.type) ELSE inp.message

\* What is known of one triggerEmergency call: the page state it read, how
\* far it has got, whether its catch block ran, and the alertData.id of the
\* basic flow's insert.
Triggered(flow, inp, step, threw) ==
    [called |-> TRUE, flow |-> flow, input |-> inp, returnedEarly |-> ReturnsEarly(inp),
     step |-> step, threw |-> threw, rowId |-> NoRow]

\* useState<number | null>(null): the countdown when none is running.
NoCountdown == 0 - 1

\* finally { setLoading(false); setIsEmergencyActive(false); setCountdown(null); }
Finally(c) == [c EXCEPT !.count = NoCountdown, !.active = FALSE, !.loading = FALSE]

\* EmergencyEnhanced.triggerEmergency up to its first await: the early
\* returns, setLoading(true), new AuthorityAlert(...), and the contacts
\* query sent. cd0 is the page's countdown state as the caller leaves it.
TriggerEmergency(c, inp, cd0) ==
    /\ NextCall(c)
    /\ triggers' = triggers + 1
    /\ IF ReturnsEarly(inp)
       THEN /\ trig' = [trig EXCEPT ![c] = Triggered("enhanced", inp, "finished", FALSE)]
            /\ cd' = cd0
            /\ UNCHANGED <<status, message, ident, alertType>>
       ELSE /\ trig' = [trig EXCEPT ![c] = Triggered("enhanced", inp, "contacts", FALSE)]
            /\ cd' = [cd0 EXCEPT !.loading = TRUE]
            /\ NewAlert(c, SessionUser, inp.type, MessageOrDefault(inp))
    /\ UNCHANGED <<contacts, pc, results, ret, insertRes, invokeRes, lastOp, dbVars,
                   logVars, fnVars, dispatched, sends, loc>>

\* const contacts = await getEmergencyContacts(user.id) returns: its error
\* is thrown to the catch block, its rows are handed to notifyAll.
TriggerContactsFetched(c, cs, contactsError, ins) ==
    /\ trig[c].called /\ trig[c].step = "contacts"
    /\ IF contactsError
       THEN /\ trig' = [trig EXCEPT ![c].step = "finished", ![c].threw = TRUE]
            /\ cd' = Finally(cd)
            /\ UNCHANGED <<status, notifyVars, lastOp, dbVars, logVars, fnVars, msgVars>>
       ELSE /\ trig' = [trig EXCEPT ![c].step = "notifying"]
            /\ NotifyAllCall(c, cs, ins)
            /\ UNCHANGED cd
    /\ UNCHANGED <<triggers, loc>>

\* The entry triggerEmergency hands to saveLog: {id: alert.id, userId,
\* type, ..., timestamp, status: alert.status, notificationResults:
\* result.results}
TriggerLog(c) ==
    EmergencyLog(ident[Obj(c, "alert")].id, ident[Obj(c, "alert")].userId, alertType[c],
                 status[Obj(c, "alert")], c)
        @@ [notificationResults |-> ret[c].results]

\* const result = await notifyAll(alert, contacts); FileHandler.saveLog(...):
\* saveLog catches what localStorage throws, so triggerEmergency goes on to
\* its events insert whether or not the entry was stored.
TriggerSaveLog(c, getThrows, setThrows) ==
    /\ trig[c].called /\ trig[c].step = "notifying" /\ pc[c] = "done"
    /\ SaveLog(TriggerLog(c), getThrows, setThrows)
    /\ trig' = [trig EXCEPT ![c].step = "logged"]
    /\ UNCHANGED <<triggers, cd, loc>>

\* An insert into events: the row is stored when the insert is not answered
\* with an error of its own and its alert_id is the id of an alert row
\* (alert_id REFERENCES alerts(id)); the caller does not look at the result.
EventsAfter(ev, eventsFail) ==
    IF ~eventsFail /\ ev.alert_id \in 1..Len(alerts) THEN Append(events, ev) ELSE events

AlertCreated(alertId) == [alert_id |-> alertId, event_type |-> "alert_created"]

\* await supabase.from("events").insert({alert_id: alert.id, ...}), and the
\* finally block after it.
TriggerLogEvent(c, eventsFail) ==
    /\ trig[c].called /\ trig[c].flow = "enhanced" /\ trig[c].step = "logged"
    /\ events' = EventsAfter(AlertCreated(ident[Obj(c, "alert")].id), eventsFail)
    /\ trig' = [trig EXCEPT ![c].step = "finished"]
    /\ cd' = Finally(cd)
    /\ UNCHANGED <<status, lastOp, notifyVars, dbVars, logVars, msgVars, resp, runs, admin,
                   triggers, loc>>

\* Emergency.triggerEmergency up to its first await: the early returns and
\* the insert of the alert row.
TriggerEmergencyBasic(c, inp, ins) ==
    /\ NextCall(c)
    /\ triggers' = triggers + 1
    /\ IF ReturnsEarly(inp)
       THEN /\ trig' = [trig EXCEPT ![c] =
                           Triggered("basic", inp, "finished", FALSE)]
            /\ UNCHANGED <<rows, alerts>>
       ELSE /\ ins = "error" \/ rows < MaxRows
            /\ trig' = [trig EXCEPT ![c] =
                           [Triggered("basic", inp, "inserted", FALSE) EXCEPT
                               !.rowId = IF ins = "ok" THEN rows + 1 ELSE NoRow]]
            /\ rows' = RowsAfter(ins)
            /\ alerts' = AlertsAfter(ins, [user_id |-> SessionUser, type |-> inp.type,
                                           message |-> inp.message, status |-> "pending",
                                           acknowledged_at |-> "null",
                                           resolved_at |-> "null"])
    /\ UNCHANGED <<status, lastOp, notifyVars, invoked, logVars, msgVars, fnVars, cd, loc>>

\* if (alertError) throw alertError; otherwise the 'alert_created' event is
\* inserted with alertData.id.
TriggerBasicEvent(c, eventsFail) ==
    /\ trig[c].called /\ trig[c].flow = "basic" /\ trig[c].step = "inserted"
    /\ IF trig[c].rowId = NoRow
       THEN /\ trig' = [trig EXCEPT ![c].step = "finished", ![c].threw = TRUE]
            /\ UNCHANGED events
       ELSE /\ trig' = [trig EXCEPT ![c].step = "logged"]
            /\ events' = EventsAfter(AlertCreated(trig[c].rowId), eventsFail)
    /\ UNCHANGED <<status, lastOp, notifyVars, dbVars, logVars, msgVars, resp, runs, admin,
                   triggers, cd, loc>>

\* supabase.functions.invoke("notify-emergency", {body: {alertId:
\* alertData.id}}) is sent.
TriggerBasicInvoke(c) ==
    /\ trig[c].called /\ trig[c].flow = "basic" /\ trig[c].step = "logged"
    /\ invoked' = InvokedAfter("ok", trig[c].rowId)
    /\ trig' = [trig EXCEPT ![c].step = "invoked"]
    /\ UNCHANGED <<status, lastOp, notifyVars, rows, alerts, logVars, msgVars, fnVars,
                   triggers, cd, loc>>

\* The invocation does not reach the function: invoke resolves with an
\* error (the answer is discarded), or an exception leaves it for the catch
\* block.
TriggerBasicLost(c, inv) ==
    /\ trig[c].called /\ trig[c].flow = "basic" /\ trig[c].step = "invoked"
    /\ inv \in {"rejected", "throws"}
    /\ trig' = [trig EXCEPT ![c].step = "finished", ![c].threw = (inv = "throws")]
    /\ UNCHANGED <<status, lastOp, notifyVars, dbVars, logVars, msgVars, fnVars, triggers,
                   cd, loc>>

(***************************************************************************)
(* pages/Emergency.tsx: the countdown of EmergencyEnhanced                 *)
(***************************************************************************)
\* loading: set by setLoading(true) of captureLocation and of
\* triggerEmergency, cleared by the finally block of any of their calls.
Loading == cd.loading

\* The capture button: disabled={loading || isEmergencyActive}
CaptureEnabled == ~Loading /\ ~cd.active

\* The trigger button, shown while countdown is null:
\* disabled={loading || !location}
TriggerEnabled == cd.count = NoCountdown /\ ~Loading /\ cd.location

\* if (!location) { toast; return; }  setIsEmergencyActive(true);
\* setCountdown(5); const interval = setInterval(...): a new interval, whose
\* handle is a local constant of this call.
startCountdown(c) ==
    IF ~c.location THEN c
    ELSE [c EXCEPT !.count = 5, !.active = TRUE, !.timers = @ + 1, !.cancelled = FALSE]

\* A click on the trigger button.
StartCountdown ==
    /\ cd.starts < MaxCountdowns
    /\ TriggerEnabled
    /\ cd' = [startCountdown(cd) EXCEPT !.starts = @ + 1]
    /\ UNCHANGED <<status, lastOp, notifyVars, dbVars, logVars, msgVars, fnVars, trig,
                   triggers, loc>>

\* cancelCountdown, behind the cancel button (shown while countdown is not
\* null): setCountdown(null); setIsEmergencyActive(false). No interval is
\* cleared: the handle is out of its scope.
CancelCountdown ==
    /\ cd.count # NoCountdown
    /\ cd' = [cd EXCEPT !.count = NoCountdown, !.active = FALSE, !.cancelled = TRUE]
    /\ UNCHANGED <<status, lastOp, notifyVars, dbVars, logVars, msgVars, fnVars, trig,
                   triggers, loc>>

\* prev === null || prev <= 1
LastTick(c) == c.count = NoCountdown \/ c.count <= 1

\* A tick of a live interval that counts down: return prev - 1.
TickDown ==
    /\ cd.timers > 0 /\ ~LastTick(cd)
    /\ cd' = [cd EXCEPT !.count = @ - 1]
    /\ UNCHANGED <<status, lastOp, notifyVars, dbVars, logVars, msgVars, fnVars, trig,
                   triggers, loc>>

\* A tick of a live interval that ends it: clearInterval(interval);
\* triggerEmergency(); return null. The call reads the page state of the
\* render whose startCountdown made the interval, where location was set.
TickFire(c, inp) ==
    /\ inp.location
    /\ cd.timers > 0 /\ LastTick(cd)
    /\ TriggerEmergency(c, inp, [cd EXCEPT !.count = NoCountdown, !.timers = @ - 1,
                                           !.firedAfterCancel = @ \/ cd.cancelled])

(***************************************************************************)
(* LocationService.ts: the singleton's position watch                      *)
(***************************************************************************)
\* _watchId = null; watch ids handed out by watchPosition are 1, 2, ...
NoWatch == 0
WatchIds == 1..MaxWatches

\* _currentLocation: null, or the position written by the callback of a
\* watch or of a captureLocation call.
NoLocation == <<"null", NoWatch>>
WatchLocation(id) == <<"watch", id>>
CapturedLocation == <<"capture", NoWatch>>

AllOtherVars ==
    <<status, lastOp, notifyVars, dbVars, logVars, msgVars, fnVars, trig, triggers, cd>>

\* if (this._watchId !== null) { clearWatch(this._watchId); this._watchId = null; }
stopWatching(l) ==
    IF l.watchId # NoWatch
    THEN [l EXCEPT !.active = @ \ {l.watchId}, !.watchId = NoWatch, !.stopped = TRUE]
    ELSE [l EXCEPT !.stopped = TRUE]

\* startWatchingLocation(callback): without geolocation nothing happens;
\* otherwise watchPosition starts a watch and its id replaces _watchId.
startWatchingLocation(geolocation) ==
    /\ loc.nextWatch <= MaxWatches
    /\ loc' = IF ~geolocation THEN loc
              ELSE [loc EXCEPT !.watchId = loc.nextWatch, !.active = @ \cup {loc.nextWatch},
                               !.nextWatch = @ + 1, !.stopped = FALSE]
    /\ UNCHANGED AllOtherVars

stopWatchingLocation ==
    /\ loc' = stopWatching(loc)
    /\ UNCHANGED AllOtherVars

\* The browser reports a position to a live watch: a call of its callback
\* starts and awaits reverseGeocode.
PositionReported(id) ==
    /\ id \in loc.active
    /\ loc.inflight[id] < MaxInflight
    /\ loc' = [loc EXCEPT !.inflight[id] = @ + 1]
    /\ UNCHANGED AllOtherVars

\* reverseGeocode returned to a suspended call of the callback of watch id:
\* this._currentLocation = {...}; callback(...)
GeocodeReturned(id) ==
    /\ loc.inflight[id] > 0
    /\ loc' = [loc EXCEPT !.inflight[id] = @ - 1, !.currentLocation = WatchLocation(id),
                          !.updatedAfterStop = @ \/ loc.stopped]
    /\ UNCHANGED AllOtherVars

\* captureLocation(): without geolocation the promise is rejected at once;
\* otherwise getCurrentPosition is asked for one position.
captureLocation(l, geolocation) ==
    IF geolocation THEN [l EXCEPT !.requested = @ + 1] ELSE l

\* The success callback of getCurrentPosition starts and awaits
\* reverseGeocode.
capturePosition(l) == [l EXCEPT !.requested = @ - 1, !.geocoding = @ + 1]

\* The error callback of getCurrentPosition: reject(new Error(...))
captureError(l) == [l EXCEPT !.requested = @ - 1]

\* reverseGeocode returned: this._currentLocation = {...};
\* resolve(this._currentLocation)
captureGeocoded(l) == [l EXCEPT !.geocoding = @ - 1, !.currentLocation = CapturedLocation]

(***************************************************************************)
(* pages/Emergency.tsx: captureLocation of EmergencyEnhanced               *)
(***************************************************************************)
PageOtherVars ==
    <<status, lastOp, notifyVars, dbVars, logVars, msgVars, fnVars, trig, triggers>>

\* A click on the capture button: setLoading(true); await
\* locationService.captureLocation(). A promise rejected at once takes the
\* call through its catch block to finally { setLoading(false) }.
CaptureLocation(geolocation) ==
    /\ cd.captures < MaxCaptures
    /\ CaptureEnabled
    /\ loc' = captureLocation(loc, geolocation)
    /\ cd' = [cd EXCEPT !.captures = @ + 1,
                        !.loading = IF geolocation THEN TRUE ELSE FALSE]
    /\ UNCHANGED PageOtherVars

\* The browser hands a position to a pending captureLocation call.
CapturePosition ==
    /\ loc.requested > 0
    /\ loc' = capturePosition(loc)
    /\ UNCHANGED <<cd, PageOtherVars>>

\* The browser reports an error or the timeout: the promise is rejected,
\* catch { toast } finally { setLoading(false) }.
CaptureFailed ==
    /\ loc.requested > 0
    /\ loc' = captureError(loc)
    /\ cd' = [cd EXCEPT !.loading = FALSE]
    /\ UNCHANGED PageOtherVars

\* The promise is resolved: setLocation(...); setLocationAddress(...);
\* finally { setLoading(false) }.
CaptureReturned ==
    /\ loc.geocoding > 0
    /\ loc' = captureGeocoded(loc)
    /\ cd' = [cd EXCEPT !.location = TRUE, !.loading = FALSE]
    /\ UNCHANGED PageOtherVars

(***************************************************************************)
(* Specifications                                                          *)
(***************************************************************************)
NoResponse == [handler |-> "none", method |-> "none", json |-> FALSE, auth |-> "none",
               alertId |-> 0, status |-> 0, success |-> FALSE, inserts |-> 0]
NoTrigger == [called |-> FALSE]
NoLogOp == [op |-> "none", id |-> 0, before |-> <<>>, threw |-> FALSE, failed |-> FALSE,
            readFailed |-> FALSE, result |-> VoidReturn]
EmptyStorage == [present |-> FALSE, logs |-> <<>>]

InitCommon ==
    /\ alertType = [c \in Calls |-> "general"]
    /\ contacts = [c \in Calls |-> <<>>]
    /\ pc = [c \in Calls |-> "idle"]
    /\ results = [c \in Calls |-> <<>>]
    /\ ret = [c \in Calls |-> NoReturn]
    /\ rows = 0
    /\ invoked = {}
    /\ insertRes = [c \in Calls |-> "none"]
    /\ invokeRes = [c \in Calls |-> "none"]
    /\ lastOp = NoOp
    /\ storage = EmptyStorage
    /\ nextId = 1
    /\ logOp = NoLogOp
    /\ alerts = <<>>
    /\ events = <<>>
    /\ resp = NoResponse
    /\ runs = [r \in Runs |-> NoRun]
    /\ admin = <<>>
    /\ dispatched = [o \in Objs |-> FALSE]
    /\ trig = [c \in Calls |-> NoTrigger]
    /\ loc = [watchId |-> NoWatch, active |-> {}, inflight |-> [id \in WatchIds |-> 0],
              nextWatch |-> 1, currentLocation |-> NoLocation, stopped |-> FALSE,
              updatedAfterStop |-> FALSE, requested |-> 0, geocoding |-> 0]
    /\ cd = [count |-> NoCountdown, active |-> FALSE, loading |-> FALSE, location |-> FALSE,
             captures |-> 0, timers |-> 0, starts |-> 0, cancelled |-> FALSE,
             firedAfterCancel |-> FALSE]
    /\ triggers = 0
    /\ sends = [s \in Sends |-> NoSend]

\* No Alert object has been built.
Init ==
    /\ InitCommon
    /\ status = [o \in Objs |-> NotConstructed]
    /\ message = [o \in Objs |-> EmptyString]
    /\ ident = [o \in Objs |-> NoIdent]

\* The versions of the notify-emergency function.
Builds == {"index.ts", "part_005"}

\* The steps of the runs the function has started.
Serve ==
    \/ \E r \in Runs, cf \in BOOLEAN, ef \in BOOLEAN, pn \in BOOLEAN :
          NotifyEmergencyInsert(r, cf, ef, pn)
    \/ \E r \in Runs : NotifyEmergencyRespond(r)

\* The invocation of a suspended sendAlert reaches the function, sent by the
\* client of the alert's user, and the function runs for it.
Answer ==
    \/ \E s \in Sends, b \in Builds, q \in BOOLEAN :
          /\ sends[s].phase = "invoked"
          /\ NotifyEmergencyReceived(b, Invoke(ClientAuth(ident[sends[s].obj].userId),
                                               sends[s].rowId), <<"send", s>>, q)
    \/ Serve

\* A pending invocation of a suspended sendAlert fails on its way.
Lose == \E s \in Sends, inv \in {"rejected", "throws"} : InvokeLost(s, inv)

\* A caller builds an alert of any category for the session's user.
Construct(c, t) ==
    /\ NextCall(c)
    /\ NewAlert(c, SessionUser, t, DefaultMessage(t))
    /\ UNCHANGED <<contacts, pc, results, ret, insertRes, invokeRes, lastOp, dbVars, logVars,
                   fnVars, dispatched, sends, trigVars>>

\* The caller hands its alert to notifyAll with any contact list.
Call(c, cs, ins) ==
    /\ NotifyAllCall(c, cs, ins)
    /\ UNCHANGED trigVars

\* The steps of the started notifyAll calls. Each is the continuation of an
\* awaited promise: once the external call behind it has returned or
\* failed, the event loop runs it, and nothing in the code can cancel it.
Dispatch ==
    \/ \E c \in Calls, ins \in InsertOutcomes : AfterSms(c, ins)
    \/ \E c \in Calls, ins \in InsertOutcomes : AfterEmail(c, ins)
    \/ \E s \in Sends : SendInvoke(s)
    \/ Answer
    \/ Lose
    \/ \E c \in Calls : AuthorityReturn(c)
    \/ \E c \in Calls : AfterAuthority(c)
    \/ \E c \in Calls : AfterPush(c)

\* The categories of the alerts handed to notifyAll where the contact list
\* varies.
CallTypes == {"medical", "fire"}

Next ==
    \/ \E c \in Calls, t \in CallTypes : Construct(c, t)
    \/ \E c \in Calls, cs \in ContactLists, ins \in InsertOutcomes : Call(c, cs, ins)
    \/ Dispatch

Spec == Init /\ [][Next]_vars

\* Alerts of every category handed to notifyAll, without contacts or with
\* one contact that has a phone number and an email address.
LabelContacts == {<<>>, <<[phone |-> "+15550100", email |-> "a@example.org"]>>}

NextLabels ==
    \/ \E c \in Calls, t \in AlertTypes : Construct(c, t)
    \/ \E c \in Calls, cs \in LabelContacts, ins \in InsertOutcomes : Call(c, cs, ins)
    \/ Dispatch

SpecLabels == Init /\ [][NextLabels]_vars

\* General alerts handed to notifyAll with any contact list, every started
\* step being taken in the end.
NextLive ==
    \/ \E c \in Calls : Construct(c, "general")
    \/ \E c \in Calls, cs \in ContactLists, ins \in InsertOutcomes : Call(c, cs, ins)
    \/ Dispatch

SpecLive == Init /\ [][NextLive]_vars /\ WF_vars(Dispatch)

\* Every Alert object has been built, for the session's user and with the
\* default message of its category.
InitAlert ==
    /\ InitCommon
    /\ status = [o \in Objs |-> ConstructedStatus]
    /\ message = [o \in Objs |-> DefaultMessage("general")]
    /\ ident = [o \in Objs |-> Constructed(SessionUser, o)]

\* The objects of SpecAlert: one AuthorityAlert and one SMSAlert.
AlertObjs == {Obj(1, "alert"), Obj(1, "smsAlert")}

\* The segments of the sendAlert calls made on those objects.
SendSteps ==
    \/ \E s \in Sends : SendInvoke(s)
    \/ Answer
    \/ Lose
    \/ \E s \in Sends : SendAlertReturn(s)

NextAlert ==
    \/ \E o \in AlertObjs, ins \in InsertOutcomes : SendAlert(o, ins)
    \/ SendSteps
    \/ \E o \in AlertObjs, v \in AlertStatus : SetStatus(o, v)

SpecAlert == InitAlert /\ [][NextAlert]_vars

\* Texts a caller assigns to an alert's message.
NewMessages == {Message(5, 0), Message(6, 0)}

\* Alert objects that are dispatched and whose message is assigned, in any
\* order.
NextMessage ==
    \/ \E o \in AlertObjs, ins \in InsertOutcomes : SendAlert(o, ins)
    \/ SendSteps
    \/ \E o \in AlertObjs, v \in NewMessages : SetMessage(o, v)

SpecMessage == InitAlert /\ [][NextMessage]_vars

\* Every operation a caller has on a constructed AuthorityAlert, in any
\* order.
NextFields ==
    \/ \E ins \in InsertOutcomes : SendAlert(Obj(1, "alert"), ins)
    \/ SendSteps
    \/ \E v \in AlertStatus : SetStatus(Obj(1, "alert"), v)
    \/ SetMessage(Obj(1, "alert"), Message(5, 0))

SpecFields == InitAlert /\ [][NextFields]_vars

\* saveLog with a fresh id (crypto.randomUUID) and the current time
SaveAny ==
    /\ nextId <= MaxSaves
    /\ \E u \in LogUsers, t \in LogTypes, st \in AlertStatus :
          SaveLog(EmergencyLog(nextId, u, t, st, nextId), FALSE, FALSE)
    /\ UNCHANGED trigVars

DeleteAny == \E id \in 1..MaxSaves : DeleteLog(id, FALSE, FALSE)

ClearAll == ClearAllLogs(FALSE)

NextLog == SaveAny \/ DeleteAny \/ ClearAll

SpecLog == Init /\ [][NextLog]_vars

\* a run of saveLog calls, each with a fresh id
AppendNext ==
    /\ nextId <= MAX_LOGS + ExtraAppends
    /\ SaveLog(EmergencyLog(nextId, "u1", "general", "pending", nextId), FALSE, FALSE)
    /\ UNCHANGED trigVars

SpecCap == Init /\ [][AppendNext]_vars

\* The log store on a localStorage whose getItem, setItem and removeItem may
\* throw (storage disabled, quota exceeded).
SaveFault ==
    /\ nextId <= MaxSaves
    /\ \E u \in LogUsers, st \in AlertStatus, g \in BOOLEAN, s \in BOOLEAN :
          SaveLog(EmergencyLog(nextId, u, "general", st, nextId), g, s)
    /\ UNCHANGED trigVars

DeleteFault == \E id \in 1..MaxSaves, g \in BOOLEAN, s \in BOOLEAN : DeleteLog(id, g, s)

ClearFault == \E r \in BOOLEAN : ClearAllLogs(r)

NextLogFault == SaveFault \/ DeleteFault \/ ClearFault

SpecLogFault == Init /\ [][NextLogFault]_vars

\* What the page holds when triggerEmergency runs: a signed-in user or
\* none, a captured location or none, the chosen category, the typed
\* message and the address. The inputs are a valid one and those that
\* differ from it in one field.
Categories == {"medical", "general", "other"}
Messages == {EmptyString, Message(1000, 0), Message(1000, 1), Message(1001, 0)}
Latitudes == {-91, -90, 90, 91}
Longitudes == {-181, 180}
Addresses == {500, 501}

BaseInput ==
    [user |-> TRUE, location |-> TRUE, type |-> "medical", message |-> EmptyString,
     lat |-> 90, lng |-> 180, address |-> 500]

Inputs ==
    {[BaseInput EXCEPT !.user = u] : u \in BOOLEAN}
    \cup {[BaseInput EXCEPT !.location = FALSE, !.lat = 0, !.lng = 0]}
    \cup {[BaseInput EXCEPT !.type = t] : t \in Categories}
    \cup {[BaseInput EXCEPT !.message = m] : m \in Messages}
    \cup {[BaseInput EXCEPT !.lat = la] : la \in Latitudes}
    \cup {[BaseInput EXCEPT !.lng = lo] : lo \in Longitudes}
    \cup {[BaseInput EXCEPT !.address = a] : a \in Addresses}

\* A call that returns early fetches no contacts and inserts nothing, so
\* the contact list and the outcomes of those calls are drawn only for the
\* calls that get that far.
EarlyInputs == {inp \in Inputs : ReturnsEarly(inp)}
ValidInputs == {inp \in Inputs : ~ReturnsEarly(inp)}

\* The function answers, or fails to answer, the invocation of the basic
\* flow.
BasicAnswer ==
    \/ \E c \in Calls, b \in Builds, q \in BOOLEAN :
          /\ trig[c].called
          /\ NotifyEmergencyReceived(b, Invoke(ClientAuth(SessionUser), trig[c].rowId),
                                     <<"trigger", c>>, q)
    \/ \E c \in Calls, inv \in {"rejected", "throws"} : TriggerBasicLost(c, inv)

\* The steps of a basic-page call after its first await.
BasicSteps ==
    \/ \E c \in Calls, ef \in BOOLEAN : TriggerBasicEvent(c, ef)
    \/ \E c \in Calls : TriggerBasicInvoke(c)
    \/ BasicAnswer
    \/ Serve

\* One call of the basic page with valid input.
BasicPage ==
    \/ \E c \in 1..MaxPageCalls, ins \in InsertOutcomes :
          TriggerEmergencyBasic(c, BaseInput, ins)
    \/ BasicSteps

\* The runs that will send their events insert.
Inserting == {r \in Runs : runs[r].phase = "found"}

\* The ids of the rows the page calls can store, and one that names no row.
AlertIds == 1..(MaxPageCalls + 1)

\* The requests sent to the function directly: a POST with any header and
\* a JSON body with any alertId or a body that is not JSON, and an OPTIONS
\* request (whose body the handler does not read) with any header.
Requests ==
    {Req("POST", TRUE, auth, id) : auth \in AuthHeaders, id \in AlertIds}
        \cup {Req(m, FALSE, auth, 0) : m \in Methods, auth \in AuthHeaders}

\* A request reaches index.ts.
Request ==
    /\ Len(events) + Cardinality(Inserting) < MaxEvents
    /\ \E req \in Requests, q \in BOOLEAN :
          NotifyEmergencyReceived("index.ts", req, <<"request", 0>>, q)

\* A request reaches part_005.
RequestVerified ==
    /\ Len(events) + Cardinality(Inserting) < MaxEvents
    /\ \E req \in Requests, q \in BOOLEAN :
          NotifyEmergencyReceived("part_005", req, <<"request", 0>>, q)

\* The session's user triggers an alert on the basic page; requests of
\* either method, with any header and any body, reach either build of the
\* notify-emergency function.
NextNotifier == BasicPage \/ Request \/ RequestVerified

SpecNotifier == Init /\ [][NextNotifier]_vars

\* The session's user triggers an alert on the basic page; an admin picks
\* any item of any row's Select.
AdminUpdate ==
    \/ \E id \in AlertIds, s \in SelectItems, e \in BOOLEAN : updateAlertStatus(id, s, e)
    \/ \E i \in 1..MaxEvents, ef \in BOOLEAN : StatusChangeLogged(i, ef)

NextAdmin == BasicPage \/ AdminUpdate

SpecAdmin == Init /\ [][NextAdmin]_vars

\* The steps of the started triggerEmergency calls after their first
\* await, with the user's contacts drawn from `lists` and localStorage
\* throwing as `faults` allows.
TriggerStepsWith(lists, faults) ==
    \/ \E c \in Calls, cs \in lists, e \in BOOLEAN, ins \in InsertOutcomes :
          TriggerContactsFetched(c, cs, e, ins)
    \/ Dispatch
    \/ \E c \in Calls, g \in faults, s \in faults : TriggerSaveLog(c, g, s)
    \/ \E c \in Calls, ef \in BOOLEAN : TriggerLogEvent(c, ef)

\* Any contact list, and a localStorage that may throw on any access.
TriggerSteps == TriggerStepsWith(ContactLists, BOOLEAN)

\* One triggerEmergency call of either page, with any input, run to its
\* end.
NextInput ==
    \/ \E c \in 1..MaxPageCalls, inp \in Inputs :
          TriggerEmergency(c, inp, cd) /\ UNCHANGED loc
    \/ \E c \in 1..MaxPageCalls, inp \in EarlyInputs : TriggerEmergencyBasic(c, inp, "ok")
    \/ \E c \in 1..MaxPageCalls, inp \in ValidInputs, ins \in InsertOutcomes :
          TriggerEmergencyBasic(c, inp, ins)
    \/ BasicSteps
    \/ TriggerSteps

SpecInput == Init /\ [][NextInput]_vars

\* What the page holds when a cycle of the enhanced page starts: the base
\* input, or a state that makes triggerEmergency return early.
CycleInputs == EarlyInputs \cup {BaseInput}

\* triggerEmergency calls of the enhanced page, which may overlap, with any
\* contact list and a localStorage that may throw.
NextTrigger ==
    \/ \E c \in Calls, inp \in CycleInputs : TriggerEmergency(c, inp, cd) /\ UNCHANGED loc
    \/ TriggerSteps

SpecTrigger == Init /\ [][NextTrigger]_vars

\* The steps of the captureLocation calls of the enhanced page.
Capture ==
    \/ \E g \in BOOLEAN : CaptureLocation(g)
    \/ CapturePosition
    \/ CaptureFailed
    \/ CaptureReturned

\* What the page holds in the render whose startCountdown made an interval.
CountdownInputs == {inp \in CycleInputs : inp.location}

\* The enhanced page: the user captures the location, starts and cancels
\* countdowns, the interval timers tick, and the triggered calls run to
\* their end, the user having no contact or one with a phone number and an
\* email address.
NextCountdown ==
    \/ Capture
    \/ StartCountdown
    \/ CancelCountdown
    \/ TickDown
    \/ \E c \in Calls, inp \in CountdownInputs : TickFire(c, inp)
    \/ TriggerStepsWith(LabelContacts, BOOLEAN)

SpecCountdown == Init /\ [][NextCountdown]_vars

\* Any sequence of starts and stops on the singleton, with the browser
\* reporting positions to the live watches in between, and the page's
\* captureLocation calls.
NextLocation ==
    \/ \E g \in BOOLEAN : startWatchingLocation(g)
    \/ stopWatchingLocation
    \/ \E id \in WatchIds : PositionReported(id)
    \/ \E id \in WatchIds : GeocodeReturned(id)
    \/ Capture

SpecLocation == Init /\ [][NextLocation]_vars

\* One AuthorityAlert whose sendAlert is repeated, and the notifier invoked
\* again, by its owner, for an alert id it was already invoked with.
RetrySend == \E ins \in InsertOutcomes : SendAlert(Obj(1, "alert"), ins)

RetryInvoke ==
    /\ Len(events) + Cardinality(Inserting) < MaxEvents
    /\ \E id \in invoked, q \in BOOLEAN :
          NotifyEmergencyReceived("part_005", Invoke(ClientAuth(SessionUser), id),
                                  <<"request", 0>>, q)

NextRetry == RetrySend \/ SendSteps \/ RetryInvoke

SpecRetry == InitAlert /\ [][NextRetry]_vars

(***************************************************************************)
(* Properties of the dispatch (Spec) and of the Alert objects (SpecAlert)  *)
(***************************************************************************)
HasOutcome(rs, type) == \E i \in 1..Len(rs) : rs[i].type = type
CountOutcomes(rs, type) == Cardinality({i \in 1..Len(rs) : rs[i].type = type})
OutcomeOf(rs, type) == rs[CHOOSE i \in 1..Len(rs) : rs[i].type = type]
NonEmpty(v) == v # "" /\ v # Undefined
SomePhone(cs) == \E i \in 1..Len(cs) : NonEmpty(cs[i].phone)
SomeEmail(cs) == \E i \in 1..Len(cs) : NonEmpty(cs[i].email)

\* C1: after notifyAll returns, the status of the alert that was passed in
\* reflects the aggregate result: 'acknowledged' when every outcome
\* succeeded, still 'pending' when every outcome failed.
C1_PassedAlertReflectsAggregate ==
    \A c \in Calls :
        ret[c].returned =>
            /\ (\A i \in 1..Len(ret[c].results) : ret[c].results[i].success)
                  => status[Obj(c, "alert")] = "acknowledged"
            /\ (\A i \in 1..Len(ret[c].results) : ~ret[c].results[i].success)
                  => status[Obj(c, "alert")] = "pending"

\* C2: once an alert is 'resolved', setting its status to 'pending' or
\* 'acknowledged' fails with InvalidTransition and the status stays
\* 'resolved'.
C2_ResolvedRejectsRegression ==
    (/\ lastOp.op = "setStatus"
     /\ lastOp.before = "resolved"
     /\ lastOp.arg \in {"pending", "acknowledged"})
        => (status[lastOp.obj] = "resolved" /\ lastOp.threw)

\* C3: whatever sendAlert attempts and status assignments are applied to an
\* alert, its status only moves forward along
\* pending -> acknowledged -> resolved.
C3_StatusOnlyMovesForward ==
    lastOp.op \in {"sendAlert", "setStatus"}
        => Rank(status[lastOp.obj]) >= Rank(lastOp.before)

\* The positions of notifyAll after its SMS and Email blocks.
PastEmail == {"awaiting", "authority", "push", "done"}
\* The positions of notifyAll after its Authority block.
PastAuthority == {"push", "done"}

\* C4: the outcomes hold an SMS entry iff some contact has a non-empty
\* phone and an Email entry iff some contact has a non-empty email; a
\* channel without recipients is not invoked at all (its Alert object is
\* never built), so with zero contacts neither SMS nor Email appears.
C4_SmsEmailIffRecipients ==
    \A c \in Calls :
        pc[c] \in PastEmail =>
            /\ HasOutcome(results[c], "SMS") <=> SomePhone(contacts[c])
            /\ HasOutcome(results[c], "Email") <=> SomeEmail(contacts[c])
            /\ (status[Obj(c, "smsAlert")] # NotConstructed) <=> SomePhone(contacts[c])
            /\ (status[Obj(c, "emailAlert")] # NotConstructed) <=> SomeEmail(contacts[c])
            /\ Len(contacts[c]) = 0 =>
                  ~HasOutcome(results[c], "SMS") /\ ~HasOutcome(results[c], "Email")

C4_Witness ==
    /\ ret[1].returned /\ ret[2].returned
    /\ contacts[1] = <<[phone |-> "", email |-> "a@example.org"]>>
    /\ status[Obj(1, "smsAlert")] = NotConstructed
    /\ ~HasOutcome(ret[1].results, "SMS")
    /\ HasOutcome(ret[1].results, "Email")
    /\ contacts[2] = <<[phone |-> "+15550100", email |-> ""]>>
    /\ HasOutcome(ret[2].results, "SMS")
    /\ ~HasOutcome(ret[2].results, "Email")

\* C5: every notifyAll call yields exactly one Authority and exactly one
\* Push outcome, whatever the contact list and whatever the earlier
\* channels reported.
C5_AuthorityAndPushExactlyOnce ==
    \A c \in Calls :
        /\ ret[c].returned =>
              /\ CountOutcomes(ret[c].results, "Authority") = 1
              /\ CountOutcomes(ret[c].results, "Push") = 1
              /\ status[Obj(c, "authorityAlert")] # NotConstructed
              /\ status[Obj(c, "pushAlert")] # NotConstructed
        /\ CountOutcomes(results[c], "Authority") <= 1
        /\ CountOutcomes(results[c], "Push") <= 1

C5_Witness ==
    /\ ret[1].returned
    /\ Len(contacts[1]) = 0
    /\ insertRes[1] = "error"
    /\ CountOutcomes(ret[1].results, "Authority") = 1
    /\ CountOutcomes(ret[1].results, "Push") = 1
    /\ pc[2] = "awaiting"

\* C6: the success flag notifyAll returns is true iff no recorded outcome
\* failed; a failed Authority channel makes it false and leaves the other
\* outcomes successful as reported.
C6_SuccessIffEveryOutcome ==
    \A c \in Calls :
        ret[c].returned =>
            /\ ret[c].success
                  <=> ~(\E i \in 1..Len(ret[c].results) : ret[c].results[i].success = FALSE)
            /\ (insertRes[c] = "error" \/ invokeRes[c] = "throws") =>
                  /\ ~ret[c].success
                  /\ \A i \in 1..Len(ret[c].results) :
                        ret[c].results[i].type # "Authority" => ret[c].results[i].success

C6_Witness ==
    /\ ret[1].returned
    /\ insertRes[1] = "error"
    /\ ~ret[1].success
    /\ HasOutcome(ret[1].results, "SMS")
    /\ OutcomeOf(ret[1].results, "SMS").success
    /\ ret[2].returned /\ ret[2].success

\* C7: no exception leaves a channel's sendAlert or notifyAll: a failed
\* insert or a throwing notifier invocation becomes an Authority outcome
\* with success = FALSE, and the Push channel after it still runs.
C7_ChannelFailureIsAbsorbed ==
    \A c \in Calls :
        /\ pc[c] # "threw"
        /\ (pc[c] \in PastAuthority /\ (insertRes[c] = "error" \/ invokeRes[c] = "throws"))
              => (/\ HasOutcome(results[c], "Authority")
                  /\ ~OutcomeOf(results[c], "Authority").success)
        /\ pc[c] = "done" => HasOutcome(results[c], "Push")

C7_Witness ==
    /\ pc[1] = "done"
    /\ insertRes[1] = "ok"
    /\ invokeRes[1] = "throws"
    /\ ~OutcomeOf(results[1], "Authority").success
    /\ OutcomeOf(results[1], "Push").success

\* C8: notifyAll returns only after every applicable channel has completed:
\* the returned list holds one outcome per applicable channel, in
\* invocation order, and nothing else.
ApplicableChannels(cs) ==
    (IF SomePhone(cs) THEN <<"SMS">> ELSE <<>>)
    \o (IF SomeEmail(cs) THEN <<"Email">> ELSE <<>>)
    \o <<"Authority", "Push">>

C8_NoPartialResult ==
    \A c \in Calls :
        ret[c].returned =>
            /\ pc[c] = "done"
            /\ [i \in 1..Len(ret[c].results) |-> ret[c].results[i].type]
                  = ApplicableChannels(contacts[c])
            /\ ret[c].results = results[c]
            /\ \A s \in Sends : sends[s].owner # c

C8_Witness ==
    /\ ret[2].returned
    /\ Len(ret[2].results) = 4
    /\ ret[2].results[4].type = "Push"
    /\ pc[1] = "awaiting"

(***************************************************************************)
(* Properties of the local log store (SpecCap, SpecLog)                    *)
(***************************************************************************)
Stored == readLogs(storage, FALSE)
Ids(logs) == {logs[i].id : i \in 1..Len(logs)}
Saved == nextId - 1

\* C9: with a working store, saveLog puts the new entry first and drops
\* from the tail beyond the cap of 100: the store never holds more than 100
\* entries, they are ordered most recent first, and from the 101st append
\* with distinct ids on it holds exactly 100 entries without the first one.
C9_SaveLogCapAndOrder ==
    /\ Len(Stored) <= 100
    /\ \A i, j \in 1..Len(Stored) : i < j => Stored[i].id > Stored[j].id
    /\ logOp.op = "saveLog" =>
          /\ Stored[1].id = logOp.id
          /\ \A i \in 2..Len(Stored) : Stored[i] = logOp.before[i - 1]
    /\ Saved <= 100 => Len(Stored) = Saved
    /\ Saved >= 101 => (Len(Stored) = 100 /\ 1 \notin Ids(Stored))

C9_Witness ==
    /\ Saved = 101
    /\ Len(Stored) = 100
    /\ Stored[1].id = 101
    /\ Stored[100].id = 2
    /\ Len(logOp.before) = 100
    /\ logOp.before[100].id = 1

\* C10: deleteLog(id) removes the entry with that id and keeps every other
\* entry in its previous relative order; when no entry has that id the
\* call returns normally and readLogs gives back what it gave before.
C10_DeleteLogFrame ==
    logOp.op = "deleteLog" =>
        /\ ~logOp.threw
        /\ logOp.id \notin Ids(Stored)
        /\ Ids(Stored) = Ids(logOp.before) \ {logOp.id}
        /\ Len(Stored) = Cardinality(Ids(Stored))
        /\ \A i, j \in 1..Len(logOp.before) :
              (i < j /\ logOp.before[i].id # logOp.id /\ logOp.before[j].id # logOp.id) =>
                  \E k, l \in 1..Len(Stored) :
                      k < l /\ Stored[k] = logOp.before[i] /\ Stored[l] = logOp.before[j]
        /\ \A i \in 1..Len(logOp.before) :
              logOp.before[i].id # logOp.id => \E k \in 1..Len(Stored) : Stored[k] = logOp.before[i]
        /\ logOp.id \notin Ids(logOp.before) => Stored = logOp.before

C10_Witness ==
    /\ logOp.op = "deleteLog"
    /\ Len(logOp.before) = 3
    /\ logOp.before[2].id = logOp.id
    /\ Stored = <<logOp.before[1], logOp.before[3]>>

RECURSIVE SumOf(_)
SumOf(f) ==
    IF DOMAIN f = {} THEN 0
    ELSE LET k == CHOOSE x \in DOMAIN f : TRUE
         IN f[k] + SumOf([x \in DOMAIN f \ {k} |-> f[x]])

\* C11: getStatistics() reports total = readLogs().length; its byStatus
\* counts, and its byType counts, add up to that total and count the stored
\* entries of each kind; right after clearAllLogs the total is 0.
C11_StatisticsAddUp ==
    LET s == getStatistics(storage, Undefined, FALSE) IN
        /\ s.total = Len(Stored)
        /\ SumOf(s.byStatus) = s.total
        /\ SumOf(s.byType) = s.total
        /\ \A k \in DOMAIN s.byStatus :
              s.byStatus[k] = Cardinality({i \in 1..Len(Stored) : Stored[i].status = k})
        /\ \A k \in DOMAIN s.byType :
              s.byType[k] = Cardinality({i \in 1..Len(Stored) : Stored[i].type = k})
        /\ logOp.op = "clearAllLogs" => s.total = 0

C11_Witness ==
    /\ logOp.op = "deleteLog"
    /\ Len(logOp.before) = 3
    /\ getStatistics(storage, Undefined, FALSE).total = 2
    /\ getStatistics(storage, Undefined, FALSE).byStatus = [x \in {"pending"} |-> 2]
    /\ DOMAIN getStatistics(storage, Undefined, FALSE).byType = {"medical", "general"}

\* C14 (as stated): the Authority channel uses the labels "medical
\* services", "fire department", "police department" and "general emergency
\* services".
SpecLabel(type) ==
    CASE type = "medical" -> "medical services"
      [] type = "fire" -> "fire department"
      [] type = "police" -> "police department"
      [] type = "general" -> "general emergency services"

C14_LabelsAsStated ==
    \A c \in Calls :
        (HasOutcome(results[c], "Authority") /\ OutcomeOf(results[c], "Authority").success) =>
            OutcomeOf(results[c], "Authority").message
                = SpecLabel(alertType[c]) \o " has been notified"

\* C14 (amended): for every category the Authority channel selects the
\* fixed label medical -> "911 Medical", fire -> "Fire Department",
\* police -> "Police Department", general -> "Emergency Services"; the same
\* category always yields the same label.
CodeLabel(type) ==
    CASE type = "medical" -> "911 Medical"
      [] type = "fire" -> "Fire Department"
      [] type = "police" -> "Police Department"
      [] type = "general" -> "Emergency Services"

C14_AuthorityLabels ==
    \A c \in Calls :
        (HasOutcome(results[c], "Authority") /\ OutcomeOf(results[c], "Authority").success) =>
            OutcomeOf(results[c], "Authority").message
                = CodeLabel(alertType[c]) \o " has been notified"

C14_Witness ==
    /\ pc[1] = "done" /\ pc[2] = "done"
    /\ alertType[1] = "fire"
    /\ OutcomeOf(results[1], "Authority").message = "Fire Department has been notified"
    /\ alertType[2] = "police"
    /\ OutcomeOf(results[2], "Authority").message = "Police Department has been notified"

\* C15: no dispatch ever makes an alert 'resolved': neither the alert handed
\* to notifyAll nor any alert a channel builds has that status in a state
\* reached by dispatching.
C15_DispatchNeverResolves ==
    \A o \in Objs : status[o] # "resolved"

C15_Witness ==
    /\ pc[1] = "done" /\ pc[2] = "done"
    /\ \A o \in Objs : status[o] # NotConstructed
    /\ status[Obj(1, "pushAlert")] = "acknowledged"
    /\ status[Obj(1, "authorityAlert")] = "pending"
    /\ status[Obj(2, "authorityAlert")] = "acknowledged"

\* The calls whose sendAlert has invoked the notifier.
HasInvoked(c) ==
    \/ \E s \in Sends :
          sends[s].owner = c /\ sends[s].phase \in {"invoked", "serving", "responded"}
    \/ pc[c] \in {"authority", "push", "done"} /\ insertRes[c] = "ok"

\* C16: the notifier is invoked only with ids of rows that were inserted,
\* and in the Authority channel it is invoked exactly when the insert
\* succeeded, with the id of the row just inserted; a failed insert
\* inserts nothing, invokes nothing and yields an Authority outcome with
\* success = FALSE.
C16_PersistThenInvoke ==
    /\ [](invoked \subseteq 1..rows)
    /\ [](Cardinality(invoked) = Cardinality({c \in Calls : HasInvoked(c)}))
    /\ [][\A c \in Calls :
            (pc[c] # "awaiting" /\ pc'[c] = "awaiting") =>
                /\ rows' = IF insertRes'[c] = "ok" THEN rows + 1 ELSE rows
                /\ invoked' = invoked]_vars
    /\ [][\A s \in Sends :
            (sends[s].phase = "inserted" /\ sends'[s].phase = "invoked") =>
                /\ sends[s].ins = "ok"
                /\ sends[s].rowId \in 1..rows
                /\ alerts[sends[s].rowId].type = alertType[sends[s].owner]
                /\ invoked' = invoked \cup {sends[s].rowId}]_vars
    /\ [][\A c \in Calls :
            (pc[c] \in {"awaiting", "authority"} /\ pc'[c] # pc[c] /\ insertRes[c] = "error") =>
                /\ invoked' = invoked
                /\ pc'[c] = "push" => ~OutcomeOf(results'[c], "Authority").success]_vars

C16_Witness ==
    /\ pc[1] = "push" /\ pc[2] = "awaiting"
    /\ insertRes[1] = "ok" /\ insertRes[2] = "ok"
    /\ rows = 2
    /\ invoked = {1, 2}

\* C17: when the notifier rejects the invocation (401 or 403), the
\* Authority outcome is not a success and notifyAll does not report overall
\* success.
C17_RejectionIsReported ==
    \A c \in Calls :
        (ret[c].returned /\ invokeRes[c] = "rejected") =>
            /\ ~OutcomeOf(ret[c].results, "Authority").success
            /\ ~ret[c].success

\* C13: a storage failure inside saveLog, deleteLog or clearAllLogs never
\* leaves the method as an exception, and the method hands its caller a
\* failure indicator that differs from what a successful call returns.
C13_FailureIsReported ==
    logOp.op \in {"saveLog", "deleteLog", "clearAllLogs"} =>
        /\ ~logOp.threw
        /\ logOp.failed => logOp.result # VoidReturn

\* C19: once an alert has been dispatched (sendAlert has run on it), an
\* assignment to its message leaves the message as it was.
C19_MessageFrozenAfterDispatch ==
    (lastOp.op = "setMessage" /\ dispatched[lastOp.obj])
        => message[lastOp.obj] = lastOp.before

\* C12: the notify-emergency function answers a request without a caller
\* identity (no authorization header, or a token that names no user) with
\* 401, and a request for an alert of another user with 403; neither gets a
\* success response.
C12_RejectsUnauthorized ==
    resp.handler # "none" =>
        /\ resp.auth \notin Users => (resp.status = 401 /\ ~resp.success)
        /\ (/\ resp.auth \in Users
            /\ resp.alertId \in 1..Len(alerts)
            /\ alerts[resp.alertId].user_id # resp.auth)
              => (resp.status = 403 /\ ~resp.success)

\* C18: an admin status update applied to a row that is 'resolved' leaves it
\* 'resolved'.
C18_AdminNeverUnresolves ==
    (lastOp.op = "updateAlertStatus" /\ lastOp.before = "resolved")
        => alerts[lastOp.obj].status = "resolved"

\* C20: a call of triggerEmergency without a user or a location, with a
\* category outside {medical, fire, police, general}, a latitude outside
\* [-90, 90], a longitude outside [-180, 180] or a message of more than 1000
\* characters returns early: no alert object is built, no row inserted, no
\* notifier invoked, no event recorded and no log entry written.
InvalidInput(inp) ==
    \/ ~inp.user
    \/ ~inp.location
    \/ inp.type \notin {"medical", "fire", "police", "general"}
    \/ inp.lat < -90 \/ inp.lat > 90
    \/ inp.lng < -180 \/ inp.lng > 180
    \/ Length(inp.message) > 1000

C20_InvalidInputReturnsEarly ==
    /\ \A c \in Calls :
          (trig[c].called /\ InvalidInput(trig[c].input))
              => /\ trig[c].returnedEarly
                 /\ trig[c].step = "finished"
                 /\ trig[c].rowId = NoRow
                 /\ status[Obj(c, "alert")] = NotConstructed
                 /\ pc[c] = "idle"
    /\ (\A c \in Calls : trig[c].called => InvalidInput(trig[c].input))
          => (rows = 0 /\ invoked = {} /\ events = <<>> /\ storage = EmptyStorage)

\* C21: persisting the alert and invoking the notifier are safe to repeat:
\* however often sendAlert runs on one alert the table holds at most one row
\* for it, and however often the notifier runs for one alert id the audit
\* trail holds at most one 'notifications_sent' event for that id.
C21_RetryIsIdempotent ==
    /\ Len(alerts) <= 1
    /\ \A i, j \in 1..Len(events) :
          (events[i] = events[j] /\ events[i].event_type = "notifications_sent") => i = j

\* C22: a started notifyAll is never cancelled and, given that every
\* external call returns or fails, it eventually returns with one outcome
\* per applicable channel.
Running(c) == pc[c] \in {"sms", "email", "awaiting", "authority", "push"}

C22_NotifyAllEventuallyReturns ==
    \A c \in Calls :
        Running(c) ~> (/\ pc[c] = "done"
                       /\ ret[c].returned
                       /\ Len(ret[c].results) = Len(ApplicableChannels(contacts[c])))

C22_Witness ==
    /\ pc[1] = "done" /\ pc[2] = "done"
    /\ ret[1].returned /\ ret[2].returned
    /\ Len(ret[1].results) = 4
    /\ ~OutcomeOf(ret[1].results, "Authority").success

\* The ids readUserLogs and getStatistics are asked for: those of the stored
\* entries, the empty string among them, and the id of a user without
\* entries.
QueryUsers == LogUsers \cup {"u3"}
IndicesOf(u) == {i \in 1..Len(Stored) : Stored[i].userId = u}
KthIndexOf(u, k) == CHOOSE i \in IndicesOf(u) : Cardinality({j \in IndicesOf(u) : j <= i}) = k

\* readUserLogs(u) is the stored entries of u, in their stored order.
UserLogsAreTheFilter(u) ==
    LET r == readUserLogs(storage, u, FALSE)
    IN  /\ Len(r) = Cardinality(IndicesOf(u))
        /\ \A k \in 1..Len(r) : r[k] = Stored[KthIndexOf(u, k)]

\* getStatistics(u) counts the stored entries with the indices in `of`.
StatisticsCount(u, of) ==
    LET s == getStatistics(storage, u, FALSE)
    IN  /\ s.total = Cardinality(of)
        /\ \A t \in LogTypes :
              (IF t \in DOMAIN s.byType THEN s.byType[t] ELSE 0)
                  = Cardinality({i \in of : Stored[i].type = t})
        /\ \A st \in AlertStatus :
              (IF st \in DOMAIN s.byStatus THEN s.byStatus[st] ELSE 0)
                  = Cardinality({i \in of : Stored[i].status = st})
        /\ DOMAIN s.byType \subseteq LogTypes
        /\ DOMAIN s.byStatus \subseteq AlertStatus

\* C23 (as stated): readUserLogs(userId) returns exactly the stored entries
\* whose userId is the given id, in their stored (most recent first) order,
\* and getStatistics(userId) counts exactly those entries.
C23_StatisticsOfEveryId ==
    \A u \in QueryUsers : UserLogsAreTheFilter(u) /\ StatisticsCount(u, IndicesOf(u))

\* C23 (amended): readUserLogs(userId) returns exactly the stored entries
\* whose userId is the given id, in their stored (most recent first) order;
\* getStatistics(userId) counts exactly those entries when the id is not
\* the empty string, and every stored entry when it is.
C23_UserLogsAreTheFilter ==
    \A u \in QueryUsers :
        /\ UserLogsAreTheFilter(u)
        /\ StatisticsCount(u, IF u = "" THEN 1..Len(Stored) ELSE IndicesOf(u))

C23_Witness ==
    /\ Len(Stored) = 3
    /\ Stored[1].userId = "u1" /\ Stored[2].userId = "" /\ Stored[3].userId = "u1"
    /\ Len(readUserLogs(storage, "u1", FALSE)) = 2
    /\ getStatistics(storage, "u1", FALSE).total = 2
    /\ Len(readUserLogs(storage, "", FALSE)) = 1
    /\ getStatistics(storage, "", FALSE).total = 3

\* C24: no sendAlert call, status assignment or message assignment changes
\* the id or the userId of an alert.
C24_IdAndUserIdAreFixed ==
    [][\A o \in AlertObjs : ident'[o].id = ident[o].id /\ ident'[o].userId = ident[o].userId]_vars

C24_Witness ==
    /\ lastOp.op = "setMessage" /\ lastOp.obj = Obj(1, "alert")
    /\ dispatched[Obj(1, "alert")] /\ rows >= 1
    /\ \E s \in Sends : sends[s].obj = Obj(1, "alert") /\ sends[s].phase = "invoked"
    /\ status[Obj(1, "alert")] = "resolved"
    /\ message[Obj(1, "alert")] # DefaultMessage("general")
    /\ ident[Obj(1, "alert")] = [id |-> ObjectId(1), userId |-> SessionUser]

\* C25: in the enhanced trigger flow a log entry is written once per
\* dispatch cycle and only after notifyAll has returned: every cycle that
\* ran to completion has exactly one entry, which holds the alert's id, the
\* status the alert has at that point and the full list of outcomes; a call
\* that returns early, or whose contact fetch throws, has none.
Completed(c) ==
    /\ trig[c].called /\ trig[c].flow = "enhanced"
    /\ trig[c].step \in {"logged", "finished"}
    /\ ~trig[c].returnedEarly /\ ~trig[c].threw

\* The stored entries that carry the id of the alert of call c.
LogsOf(c) == {i \in 1..Len(Stored) : Stored[i].id = ident[Obj(c, "alert")].id}

C25_LogOncePerCompletedCycle ==
    /\ Len(Stored) <= triggers
    /\ \A i \in 1..Len(Stored) : \E c \in Calls : Completed(c) /\ i \in LogsOf(c)
    /\ \A c \in Calls :
          IF Completed(c)
          THEN /\ Cardinality(LogsOf(c)) = 1
               /\ ret[c].returned /\ pc[c] = "done"
               /\ \A i \in LogsOf(c) :
                     /\ Stored[i].status = status[Obj(c, "alert")]
                     /\ Stored[i].notificationResults = ret[c].results
               /\ [i \in 1..Len(ret[c].results) |-> ret[c].results[i].type]
                     = ApplicableChannels(contacts[c])
          ELSE LogsOf(c) = {}

\* C26: after the user has cancelled a countdown, no timer tick calls
\* triggerEmergency for it.
C26_CancelStopsTheTrigger == ~cd.firedAfterCancel

\* C27: when the read inside saveLog or deleteLog fails while the stored
\* entries are intact, the entries stored before the call (other than the
\* one deleteLog was asked to delete) are still stored after it.
C27_FailedReadKeepsEntries ==
    (logOp.op \in {"saveLog", "deleteLog"} /\ logOp.readFailed) =>
        \A i \in 1..Len(logOp.before) :
            (logOp.op = "deleteLog" /\ logOp.before[i].id = logOp.id)
                \/ logOp.before[i].id \in Ids(Stored)

\* C28: in the enhanced trigger flow the id in the local log entry and in
\* the 'alert_created' event is the id of the alert row the Authority
\* channel inserted during the same dispatch.
C28_LoggedIdIsStoredAlert ==
    \A c \in Calls :
        (Completed(c) /\ insertRes[c] = "ok") =>
            /\ \A i \in LogsOf(c) :
                  /\ Stored[i].id \in 1..Len(alerts)
                  /\ alerts[Stored[i].id].type = alertType[c]
            /\ trig[c].step = "finished" =>
                  \E i \in 1..Len(events) :
                      /\ events[i].event_type = "alert_created"
                      /\ events[i].alert_id = ident[Obj(c, "alert")].id
                      /\ events[i].alert_id \in 1..Len(alerts)

\* C29: the notify-emergency function inserts the 'notifications_sent'
\* event only for a request that passed authentication and ownership
\* verification: a request answered 401 or 403 inserted none, and a request
\* answered with success inserted exactly one, for its alertId.
Verified ==
    /\ resp.auth \in Users
    /\ resp.alertId \in 1..Len(alerts)
    /\ alerts[resp.alertId].user_id = resp.auth

C29_EventOnlyWhenVerified ==
    resp.handler # "none" =>
        /\ resp.status \in {401, 403} => resp.inserts = 0
        /\ resp.success => (/\ resp.inserts = 1
                            /\ \E i \in 1..Len(events) :
                                  events[i] = NotificationsSent(resp.alertId))
        /\ resp.inserts > 0 => Verified

\* C30: once stopWatchingLocation has returned (and until the next start)
\* no position watch is active, and no watch callback updates
\* currentLocation.
C30_NoWatchAfterStop ==
    /\ loc.stopped => loc.active = {}
    /\ ~loc.updatedAfterStop

====
